---- MODULE Spec2Model ----
(***************************************************************************)
(* Session state machine and effects-application engine of the narrated   *)
(* RPG: the /api/ai turn handler (src/app/api/ai/route.ts), the game       *)
(* rules (src/lib/game.ts) and the client's turn submission                *)
(* (src/unnamed/part_002).                                                 *)
(***************************************************************************)
EXTENDS Integers, Sequences, FiniteSets, TLC

VARIABLES
    sessions,    \* route.ts:8   Map sessionId -> GameState (NoSession: no entry)
    turns,       \* one record per /api/ai request: where it stands, its closure
    state,       \* part_002:59  the client's React state, per browser session
    isSending,   \* part_002:60  the client's in-flight flag
    apiKey,      \* route.ts:33  whether process.env.OPENAI_API_KEY is set
    game,        \* applyEffects argument `current`
    eff,         \* applyEffects argument `eff`
    actorIndex,  \* applyEffects argument `actorIndex`
    calls,       \* how many applyEffects calls produced `game`
    rawText,     \* route.ts:69  `text`, the narrator's raw output
    parsed,      \* route.ts:76-77  what the handler makes of it (Undefined: not yet)
    actionWords, \* part_002:155  `baseAction`, word by word
    actorCls,    \* part_002:170  `actor.cls`
    relevant,    \* part_002:170  `relevant` ("": not yet chosen)
    rollResult,  \* part_002:162  `current`, the d20 the roll stops on (0: none)
    total,       \* part_002:172  `total`, the diceRoll the turn submits
    savedBySession, \* session/route.ts:5  Map sessionId -> { state?, saves }
    posted,      \* per session, how many snapshots its client has posted
    runs,        \* offline /api/ai requests, each served by a process of its own
    screen,      \* part_002:58  the screen the page shows, per browser session
    stories      \* part_002:79  one record per generateStory call: where it stands

vars == <<sessions, turns, state, isSending, apiKey, game, eff, actorIndex, calls,
          rawText, parsed, actionWords, actorCls, relevant, rollResult, total,
          savedBySession, posted,
          runs, screen, stories>>

turnVars == <<sessions, turns, state, isSending, apiKey>>
applyVars == <<game, eff, actorIndex, calls>>
parseVars == <<rawText, parsed>>
\* the variables of the specifications of single functions
diceVars == <<actionWords, actorCls, relevant, rollResult, total>>
saveVars == <<savedBySession, posted>>
pageVars == <<screen, stories>>
unitVars == <<parseVars, diceVars, saveVars, runs, pageVars>>

(***************************************************************************)
(* Bounds of the model.                                                    *)
(***************************************************************************)
MaxPlayers == 2      \* party sizes 0..MaxPlayers
MaxTurns == 2        \* /api/ai requests per behaviour
MaxCalls == 3        \* consecutive applyEffects calls in the reducer specs
MaxEffFields == 2    \* fields present in one narrator effect
MaxStories == 1      \* generateStory calls per behaviour of the page

(***************************************************************************)
(* Program constants.                                                      *)
(***************************************************************************)
MaxPlayerIndex == 3      \* RequestSchema: playerIndex max(3)
DefaultRoll == 10        \* offlineNarrate: diceRoll ?? 10
DefaultActorHp == 10     \* offlineNarrate: actor?.hp ?? 10
DefaultActorMana == 5    \* offlineNarrate: actor?.mana ?? 5
DefaultManaBase == 10    \* offlineNarrate: actor?.stats.manaBase ?? 10
HpLoss == 3              \* offlineNarrate: actorHp - 3
LowRoll == 5             \* offlineNarrate: roll <= 5
HighRoll == 16           \* offlineNarrate: roll >= 16
WinRoll == 19            \* offlineNarrate: roll >= 19
LogRoll == 12            \* offlineNarrate: roll >= 12

Max(a, b) == IF a >= b THEN a ELSE b
Min(a, b) == IF a <= b THEN a ELSE b

(***************************************************************************)
(* JavaScript values, tagged by their run-time type, so that the typeof    *)
(* and Array.isArray tests of the code can be taken as the code takes      *)
(* them.                                                                   *)
(***************************************************************************)
Undefined == [type |-> "undefined"]
Null == [type |-> "null"]
Num(n) == [type |-> "number", num |-> n]
Str(s) == [type |-> "string", str |-> s]
Bool(b) == [type |-> "boolean", bool |-> b]
Arr(a) == [type |-> "array", arr |-> a]

typeof(v) == IF v.type \in {"null", "array"} THEN "object" ELSE v.type
isArray(v) == v.type = "array"
\* x ?? y
Nullish(v) == v.type \in {"null", "undefined"}
\* truthiness of the values the code tests with && and ||
Truthy(v) ==
    CASE v.type = "undefined" -> FALSE
      [] v.type = "null" -> FALSE
      [] v.type = "string" -> v.str # ""
      [] v.type = "number" -> v.num # 0
      [] v.type = "boolean" -> v.bool
      [] OTHER -> TRUE

(***************************************************************************)
(* src/lib/game.ts                                                         *)
(***************************************************************************)
GameClass == {"Wojownik", "Mag", "Lotrzyk", "Zielarz"}

defaultStatsFor(cls) ==
    CASE cls = "Wojownik" ->
           [strength |-> 4, dexterity |-> 1, wisdom |-> 0, hpBase |-> 30, manaBase |-> 5, gold |-> 10]
      [] cls = "Mag" ->
           [strength |-> 0, dexterity |-> 1, wisdom |-> 4, hpBase |-> 18, manaBase |-> 20, gold |-> 8]
      [] cls = "Lotrzyk" ->
           [strength |-> 1, dexterity |-> 4, wisdom |-> 1, hpBase |-> 22, manaBase |-> 8, gold |-> 14]
      [] cls = "Zielarz" ->
           [strength |-> 1, dexterity |-> 1, wisdom |-> 3, hpBase |-> 24, manaBase |-> 12, gold |-> 12]

initialInventory(cls) ==
    CASE cls = "Wojownik" -> <<"Miecz zelazny", "Tarcza drewniana", "Porcja suszonego miesa">>
      [] cls = "Mag" -> <<"Laska runiczna", "Ksiega Zaklec", "Fiolka many">>
      [] cls = "Lotrzyk" -> <<"Sztylet", "Wytrychy", "Lina z hakiem">>
      [] cls = "Zielarz" -> <<"Noz zielarski", "Ziola lecznicze", "Masc z piolunu">>

\* id (crypto.randomUUID()) is an opaque key no modelled code reads.
createPlayer(name, cls) ==
    LET stats == defaultStatsFor(cls)
    IN  [name |-> name, cls |-> cls, stats |-> stats,
         hp |-> stats.hpBase, mana |-> stats.manaBase,
         inventory |-> initialInventory(cls)]

emptyGameState ==
    [world |-> Null, players |-> <<>>, activeIndex |-> 0,
     questLog |-> <<>>, goal |-> Null, isOver |-> FALSE, outcome |-> Null,
     messages |-> <<>>, story |-> Null]

WorldKeys == {"wiedzmin", "forgotten-realms", "elder-scrolls", "gothic", "dragon-age"}

\* WORLDS[key].name; the other fields of a world only feed the prompt text.
WORLDS(key) ==
    [type |-> "object", key |-> key,
     name |-> CASE key = "wiedzmin" -> "Wiedzmin"
                [] key = "forgotten-realms" -> "Zapomniane Krainy (D&D)"
                [] key = "elder-scrolls" -> "Elder Scrolls"
                [] key = "gothic" -> "Gothic"
                [] key = "dragon-age" -> "Dragon Age"]

(***************************************************************************)
(* src/app/api/ai/route.ts: the effects record and the State Reducer.      *)
(* An effects object is a record of its nine fields; a field the object    *)
(* does not carry is Undefined.                                            *)
(***************************************************************************)
EffectFields ==
    {"goal", "questLog", "isOver", "outcome", "actorHp", "actorMana",
     "actorInventory", "actorAddItems", "actorRemoveItems"}

EmptyEffects == [f \in EffectFields |-> Undefined]

\* Array.prototype.includes
includes(arr, x) == \E k \in DOMAIN arr : arr[k] = x

\* the loop that pushes every item, held or not
pushMissing_Always(inventory, items) == inventory \o items

\* for (const it of items) if (!inventory.includes(it)) inventory.push(it)
RECURSIVE pushMissing(_, _)
pushMissing(inventory, items) ==
    IF items = <<>> THEN inventory
    ELSE pushMissing(IF includes(inventory, Head(items)) THEN inventory
                     ELSE Append(inventory, Head(items)),
                     Tail(items))

\* the filter with its test inverted: it keeps the named items
filterOut_Inverted(inventory, removed) ==
    SelectSeq(inventory, LAMBDA i : includes(removed, i))

\* inventory.filter((i) => !removed.includes(i))
filterOut(inventory, removed) ==
    SelectSeq(inventory, LAMBDA i : ~includes(removed, i))

\* the clamp without its lower bound
clamp_NoFloor(base, v) == Min(base, v)

\* the clamp without its upper bound
clamp_NoCeiling(base, v) == Max(0, v)

\* Math.max(0, Math.min(base, v))
clamp(base, v) == Max(0, Min(base, v))

\* route.ts:107-117, the acting player's fields
applyActor(actor, e) ==
    LET a1 == IF typeof(e.actorHp) = "number"
              THEN [actor EXCEPT !.hp = clamp(actor.stats.hpBase, e.actorHp.num)]
              ELSE actor
        a2 == IF typeof(e.actorMana) = "number"
              THEN [a1 EXCEPT !.mana = clamp(a1.stats.manaBase, e.actorMana.num)]
              ELSE a1
        a3 == IF isArray(e.actorInventory)
              THEN [a2 EXCEPT !.inventory = e.actorInventory.arr]
              ELSE a2
        a4 == IF isArray(e.actorAddItems)
              THEN [a3 EXCEPT !.inventory = pushMissing(a3.inventory, e.actorAddItems.arr)]
              ELSE a3
        a5 == IF isArray(e.actorRemoveItems)
              THEN [a4 EXCEPT !.inventory = filterOut(a4.inventory, e.actorRemoveItems.arr)]
              ELSE a4
    IN  a5

\* global fields that empty the quest log when the effects carry no list
applyGlobal_DefaultsLog(current, e) ==
    [current EXCEPT
        !.goal = IF typeof(e.goal) = "string" THEN e.goal ELSE @,
        !.questLog = IF isArray(e.questLog) THEN e.questLog.arr ELSE <<>>,
        !.isOver = IF typeof(e.isOver) = "boolean" THEN e.isOver.bool ELSE @,
        !.outcome = IF typeof(e.outcome) = "string" THEN e.outcome ELSE @]

\* global fields that store a goal of any type
applyGlobal_AnyGoal(current, e) ==
    [current EXCEPT
        !.goal = IF e.goal # Undefined THEN e.goal ELSE @,
        !.questLog = IF isArray(e.questLog) THEN e.questLog.arr ELSE @,
        !.isOver = IF typeof(e.isOver) = "boolean" THEN e.isOver.bool ELSE @,
        !.outcome = IF typeof(e.outcome) = "string" THEN e.outcome ELSE @]

\* route.ts:101-104, the global fields
applyGlobal(current, e) ==
    [current EXCEPT
        !.goal = IF typeof(e.goal) = "string" THEN e.goal ELSE @,
        !.questLog = IF isArray(e.questLog) THEN e.questLog.arr ELSE @,
        !.isOver = IF typeof(e.isOver) = "boolean" THEN e.isOver.bool ELSE @,
        !.outcome = IF typeof(e.outcome) = "string" THEN e.outcome ELSE @]

\* next.players[actorIndex] exists (JS arrays are 0-based, sequences 1-based)
hasActor(players, i) == i + 1 \in DOMAIN players

\* the auto-lose that fires as soon as one player is down
autoLose_AnyDown(next) ==
    IF Len(next.players) # 0 /\ \E k \in DOMAIN next.players : next.players[k].hp <= 0
    THEN [next EXCEPT !.isOver = TRUE, !.outcome = Str("lose")]
    ELSE next

\* the auto-lose that leaves an outcome the effects declared in place
autoLose_KeepsDeclared(next) ==
    IF Len(next.players) # 0 /\ \A k \in DOMAIN next.players : next.players[k].hp <= 0
       /\ next.outcome = Null
    THEN [next EXCEPT !.isOver = TRUE, !.outcome = Str("lose")]
    ELSE next

\* the auto-lose without the test that the party has a member
autoLose_EmptyParty(next) ==
    IF \A k \in DOMAIN next.players : next.players[k].hp <= 0
    THEN [next EXCEPT !.isOver = TRUE, !.outcome = Str("lose")]
    ELSE next

\* route.ts:119-123
autoLose(next) ==
    IF Len(next.players) # 0 /\ \A k \in DOMAIN next.players : next.players[k].hp <= 0
    THEN [next EXCEPT !.isOver = TRUE, !.outcome = Str("lose")]
    ELSE next

\* a reducer that applies the actor's fields to every player
applyEffects_EveryPlayer(current, e, i) ==
    LET g == applyGlobal(current, e)
        a == IF hasActor(g.players, i)
             THEN [g EXCEPT !.players = [k \in DOMAIN g.players |-> applyActor(g.players[k], e)]]
             ELSE g
    IN  autoLose(a)

\* route.ts:98-125
applyEffects(current, e, i) ==
    LET g == applyGlobal(current, e)
        a == IF hasActor(g.players, i)
             THEN [g EXCEPT !.players[i + 1] = applyActor(g.players[i + 1], e)]
             ELSE g
    IN  autoLose(a)

\* route.ts:110-113: actor.inventory IS eff.actorInventory when that is an array,
\* so the pushes of actorAddItems land in the effects object the response carries.
effectsAfterApply(current, e, i) ==
    IF hasActor(current.players, i) /\ isArray(e.actorInventory) /\ isArray(e.actorAddItems)
    THEN [e EXCEPT !.actorInventory = Arr(pushMissing(e.actorInventory.arr, e.actorAddItems.arr))]
    ELSE e

(***************************************************************************)
(* The narrator's raw output: a sequence of segments, each either prose    *)
(* (a sequence of pieces of text) or a block delimited by ``` ... ```.     *)
(* A block's body is what JSON.parse makes of it: a thrown SyntaxError     *)
(* (Invalid) or the parsed value; an object value carries its effects      *)
(* fields.                                                                 *)
(***************************************************************************)
Prose(pieces) == [kind |-> "prose", pieces |-> pieces]
Block(body) == [kind |-> "block", body |-> body]
Invalid == [type |-> "invalid"]
Obj(fields) == [type |-> "object", obj |-> fields]

\* text.match(/```([\s\S]*?)```/): the first block of the text, if any
RECURSIVE firstBlock(_)
firstBlock(text) ==
    IF text = <<>> THEN Undefined
    ELSE IF Head(text).kind = "block" THEN Head(text).body
    ELSE firstBlock(Tail(text))

\* route.ts:88-96
safeExtractEffects(text) ==
    LET body == firstBlock(text)
    IN  IF body = Undefined THEN Null                      \* if (!match) return null
        ELSE IF body = Invalid THEN Null                   \* JSON.parse throws
        ELSE IF typeof(body) = "object" /\ body # Null THEN body
        ELSE Null

\* the named fields of a value used as an effects object: eff.goal, ...
fieldsOf(v) == IF v.type = "object" THEN v.obj ELSE EmptyEffects

\* String.prototype.trim on a sequence of pieces; " " is a piece of white space
RECURSIVE trimStart(_)
trimStart(pieces) ==
    IF pieces # <<>> /\ Head(pieces) = " " THEN trimStart(Tail(pieces)) ELSE pieces

RECURSIVE trimEnd(_)
trimEnd(pieces) ==
    IF pieces # <<>> /\ pieces[Len(pieces)] = " "
    THEN trimEnd(SubSeq(pieces, 1, Len(pieces) - 1))
    ELSE pieces

\* the trim that leaves the end alone
trim_StartOnly(pieces) == trimStart(pieces)

trim(pieces) == trimEnd(trimStart(pieces))

\* text.replace(/```[\s\S]*?```/g, ''): every block removed, the prose joined
RECURSIVE stripBlocks(_)
stripBlocks(text) ==
    IF text = <<>> THEN <<>>
    ELSE (IF Head(text).kind = "prose" THEN Head(text).pieces ELSE <<>>)
         \o stripBlocks(Tail(text))

\* route.ts:77
narrationOf(text) == Str(trim(stripBlocks(text)))

(***************************************************************************)
(* route.ts:128-200, the offline deterministic narrator.  A string built   *)
(* by concatenation is the sequence of its pieces.                         *)
(***************************************************************************)
IntroGoal == "Odkryj tajemnice serca pradawnego debu."

worldNameOf(current) ==
    IF current.world # Null /\ current.world.name # "" THEN current.world.name
    ELSE "Lesna Kraina"

\* a win declared on the roll alone
declaresWin_AnyRoll19(current, roll) == roll >= WinRoll

\* route.ts:175  if (current.goal && roll >= 19)
declaresWin(current, roll) == Truthy(current.goal) /\ roll >= WinRoll

\* a quest log that keeps the newest entry only
progressLog_NewestOnly(current, roll, playerAction) ==
    IF roll >= LogRoll THEN <<"Postep: " \o playerAction>> ELSE current.questLog

\* route.ts:195  roll >= 12 ? [...current.questLog, `Postep: ${playerAction}`]
\*                           : current.questLog
progressLog(current, roll, playerAction) ==
    IF roll >= LogRoll THEN Append(current.questLog, "Postep: " \o playerAction)
    ELSE current.questLog

\* a narrator that numbers its answers from a counter of the module
offlineNarrate_Counting(playerAction, diceRoll, current, isIntro, playerIndex) ==
    [narration |-> Str(<<"Akcja: ", playerAction, ". Odpowiedz nr ",
                         ToString(Cardinality({k \in DOMAIN runs : runs[k].pc = "done"}))>>),
     effects |-> Obj(EmptyEffects)]

offlineNarrate(playerAction, diceRoll, current, isIntro, playerIndex) ==
    LET present == hasActor(current.players, playerIndex)
        actor == current.players[playerIndex + 1]
        actorName == IF present /\ actor.name # "" THEN actor.name ELSE "Bohater"
        roll == IF Nullish(diceRoll) THEN DefaultRoll ELSE diceRoll.num
        hp0 == IF present THEN actor.hp ELSE DefaultActorHp
        mana0 == IF present THEN actor.mana ELSE DefaultActorMana
        manaBase == IF present THEN actor.stats.manaBase ELSE DefaultManaBase
        actorHp == IF roll <= LowRoll THEN Max(0, hp0 - HpLoss) ELSE hp0
        actorMana == IF roll > LowRoll /\ roll >= HighRoll
                     THEN Min(manaBase, mana0 + 1) ELSE mana0
        u1 == IF roll <= LowRoll THEN <<actorName, " ponosi straty (-3 HP).">>
              ELSE IF roll >= HighRoll THEN <<actorName, " zyskuje rezon z magia (+1 Mana).">>
              ELSE <<"Czesciowy sukces - napiecie rosnie.">>
        win == declaresWin(current, roll)
        lose == actorHp <= 0
                /\ \A k \in DOMAIN current.players :
                      IF k - 1 = playerIndex THEN actorHp <= 0
                      ELSE current.players[k].hp <= 0
        u2 == IF win THEN <<"Cel na wyciagniecie dloni - zwyciestwo!">> ELSE <<>>
        u3 == IF lose THEN <<"Druzyna pada bez sil...">> ELSE <<>>
        isOver == IF win \/ lose THEN TRUE ELSE current.isOver
        outcome == IF lose THEN Str("lose")
                   ELSE IF win THEN Str("win") ELSE current.outcome
    IN  IF isIntro
        THEN [narration |-> Str(<<"Swietliki tancza nad mchem. Druzyna stawia pierwszy krok w swiecie ",
                                  worldNameOf(current), ". Cel: ", IntroGoal,
                                  " Co robicie?">>),
              effects |-> Obj([EmptyEffects EXCEPT
                  !.goal = Str(IntroGoal),
                  !.questLog = Arr(Append(current.questLog, "Cel glowny wyznaczony."))])]
        ELSE [narration |-> Str(<<"Akcja: ", playerAction, ". Rzut k20: ", ToString(roll), ". ">>
                                \o u1 \o u2 \o u3 \o <<" Nastepnie?">>),
              effects |-> Obj([EmptyEffects EXCEPT
                  !.actorHp = Num(actorHp),
                  !.actorMana = Num(actorMana),
                  !.questLog = Arr(progressLog(current, roll, playerAction)),
                  !.isOver = Bool(isOver),
                  !.outcome = outcome])]

(***************************************************************************)
(* src/unnamed/part_002: the client.                                       *)
(***************************************************************************)
\* part_002:224-227
defaultName(i) == <<"Alder", "Mira", "Toran", "Lysa">>[(i % 4) + 1]

\* part_002:378-391, TeamSetup.update(i, { cls }) on one player
updateClass(np, cls) ==
    LET stats == defaultStatsFor(cls)
    IN  [np EXCEPT !.cls = cls, !.stats = stats, !.hp = stats.hpBase,
                   !.mana = stats.manaBase,
                   !.inventory = IF Len(np.inventory) # 0 THEN np.inventory ELSE <<>>]

\* part_002:194 then TeamSetup: every player starts as a Wojownik and gets the
\* class chosen for it
partyOf(classes) ==
    [k \in DOMAIN classes |->
        IF classes[k] = "Wojownik" THEN createPlayer(defaultName(k - 1), "Wojownik")
        ELSE updateClass(createPlayer(defaultName(k - 1), "Wojownik"), classes[k])]

\* String.prototype.toLowerCase, letter by letter
lowerChar(c) ==
    CASE c = "A" -> "a" [] c = "B" -> "b" [] c = "C" -> "c" [] c = "D" -> "d"
      [] c = "E" -> "e" [] c = "F" -> "f" [] c = "G" -> "g" [] c = "H" -> "h"
      [] c = "I" -> "i" [] c = "J" -> "j" [] c = "K" -> "k" [] c = "L" -> "l"
      [] c = "M" -> "m" [] c = "N" -> "n" [] c = "O" -> "o" [] c = "P" -> "p"
      [] c = "Q" -> "q" [] c = "R" -> "r" [] c = "S" -> "s" [] c = "T" -> "t"
      [] c = "U" -> "u" [] c = "V" -> "v" [] c = "W" -> "w" [] c = "X" -> "x"
      [] c = "Y" -> "y" [] c = "Z" -> "z" [] OTHER -> c

RECURSIVE toLowerCase(_)
toLowerCase(str) ==
    IF str = "" THEN ""
    ELSE lowerChar(SubSeq(str, 1, 1)) \o toLowerCase(SubSeq(str, 2, Len(str)))

\* String.prototype.includes
strIncludes(str, sub) ==
    \E k \in 1 .. (Len(str) - Len(sub) + 1) : SubSeq(str, k, k + Len(sub) - 1) = sub

\* a class value that is no GameClass: null
NoClass == "null"

\* the resolver that looks for the social keywords before the combat ones
guessRelevantStat_SocialFirst(action, cls) ==
    LET a == toLowerCase(action)
    IN  IF strIncludes(a, "rozm") \/ strIncludes(a, "persw") \/ strIncludes(a, "ucisz")
           \/ strIncludes(a, "negoc") THEN "wisdom"
        ELSE IF strIncludes(a, "atak") \/ strIncludes(a, "cios") \/ strIncludes(a, "walcz")
        THEN "strength"
        ELSE "dexterity"

\* the resolver that looks for the magic keywords before the search ones
guessRelevantStat_MagicBeforeSearch(action, cls) ==
    LET a == toLowerCase(action)
    IN  IF strIncludes(a, "atak") \/ strIncludes(a, "cios") \/ strIncludes(a, "walcz")
        THEN "strength"
        ELSE IF strIncludes(a, "rozm") \/ strIncludes(a, "persw") \/ strIncludes(a, "ucisz")
                \/ strIncludes(a, "negoc") THEN "wisdom"
        ELSE IF strIncludes(a, "czar") \/ strIncludes(a, "zakl") \/ strIncludes(a, "mag")
        THEN "wisdom"
        ELSE IF strIncludes(a, "szuk") \/ strIncludes(a, "skr") \/ strIncludes(a, "unik")
                \/ strIncludes(a, "zwin") THEN "dexterity"
        ELSE IF cls = "Wojownik" THEN "strength"
        ELSE IF cls = "Lotrzyk" THEN "dexterity"
        ELSE IF cls = "Mag" \/ cls = "Zielarz" THEN "wisdom"
        ELSE "strength"

\* part_002:229-239
guessRelevantStat(action, cls) ==
    LET a == toLowerCase(action)
    IN  IF strIncludes(a, "atak") \/ strIncludes(a, "cios") \/ strIncludes(a, "walcz")
        THEN "strength"
        ELSE IF strIncludes(a, "rozm") \/ strIncludes(a, "persw") \/ strIncludes(a, "ucisz")
                \/ strIncludes(a, "negoc") THEN "wisdom"
        ELSE IF strIncludes(a, "szuk") \/ strIncludes(a, "skr") \/ strIncludes(a, "unik")
                \/ strIncludes(a, "zwin") THEN "dexterity"
        ELSE IF strIncludes(a, "czar") \/ strIncludes(a, "zakl") \/ strIncludes(a, "mag")
        THEN "wisdom"
        ELSE IF cls = "Wojownik" THEN "strength"
        ELSE IF cls = "Lotrzyk" THEN "dexterity"
        ELSE IF cls = "Mag" \/ cls = "Zielarz" THEN "wisdom"
        ELSE "strength"

SystemGreeting ==
    [role |-> "system",
     content |-> Str(<<"Mistrz Gry: Witajcie w lesnej krainie. Wasza sciezka dopiero sie zaczyna...">>)]

Apology ==
    [role |-> "assistant", content |-> Str(<<"MG: Zaklocenia w echa Orakla. Sprobuj ponownie.">>)]

\* part_002:82-88, the state generateStory stores before the first turn
baseGame(worldKey, players) ==
    [emptyGameState EXCEPT !.world = WORLDS(worldKey), !.players = players,
                           !.activeIndex = 0, !.messages = <<SystemGreeting>>]

(***************************************************************************)
(* Inputs of the turn specification.                                       *)
(***************************************************************************)
SessionIds == {"s1", "s2"}
Turns == 1 .. MaxTurns
\* the party each client set up: a full one for s1, a lone Mag for s2
PartyOf(sid) ==
    IF sid = "s1" THEN [k \in 1 .. MaxPlayers |-> IF k = 1 THEN "Wojownik" ELSE "Mag"]
    ELSE <<"Mag">>

\* playerIndex values of a request: the first player, the schema's largest
\* (no player of these parties) and one the schema refuses
PlayerIndexes == {0, MaxPlayerIndex, MaxPlayerIndex + 1}
\* diceRoll values of a request: none, a low and a winning total
DiceRolls == {Null, Num(LowRoll - 1), Num(WinRoll)}

Effects1(f, v) == [EmptyEffects EXCEPT ![f] = v]
Effects2(f, v, g, w) == [EmptyEffects EXCEPT ![f] = v, ![g] = w]

\* what the narrator may answer in the turn specification
NarratorEffects ==
    { Effects1("actorHp", Num(0 - 100)),
      Effects1("isOver", Bool(FALSE)),
      Effects2("isOver", Bool(TRUE), "outcome", Str("win")) }

NarratorTexts ==
    { <<Prose(<<"Narracja.">>)>>,
      <<Prose(<<"Narracja.", " ">>), Block(Invalid)>> }
    \cup { <<Prose(<<"Narracja.", " ">>), Block(Obj(e))>> : e \in NarratorEffects }

IdleTurn ==
    [pc |-> "idle", sessionId |-> "", playerIndex |-> 0, isIntro |-> FALSE,
     playerAction |-> "", st |-> Undefined,
     current |-> Undefined, response |-> Undefined, status |-> 0]

\* a generateStory call that has not been made
IdleStory ==
    [pc |-> "idle", sessionId |-> "", playerIndex |-> 0, isIntro |-> TRUE,
     playerAction |-> "", closure |-> Undefined, base |-> Undefined, st |-> Undefined]

Stories == 1 .. MaxStories

(***************************************************************************)
(* The turn specification: /api/ai requests of the clients of SessionIds.  *)
(***************************************************************************)
\* sessions.get(sessionId): Undefined when the Map has no entry
sessionsGet(m, sessionId) == m[sessionId]
\* a store that keeps one game for every sessionId
sessionsSet_OneSlot(m, sessionId, value) == [sid \in DOMAIN m |-> value]

\* sessions.set(sessionId, value)
sessionsSet(m, sessionId, value) == [m EXCEPT ![sessionId] = value]

InitTurns ==
    /\ sessions = [sid \in SessionIds |-> Undefined]
    /\ turns = [t \in Turns |-> IdleTurn]
    /\ state = [sid \in SessionIds |-> baseGame("wiedzmin", partyOf(PartyOf(sid)))]
    /\ isSending = [sid \in SessionIds |-> FALSE]
    /\ apiKey \in BOOLEAN
    /\ screen = [sid \in SessionIds |-> "game"]
    /\ stories = [k \in Stories |-> IdleStory]

IdleApply ==
    /\ game = emptyGameState
    /\ eff = EmptyEffects
    /\ actorIndex = 0
    /\ calls = 0

\* no narrator output at hand
IdleParse ==
    /\ rawText = <<>>
    /\ parsed = Undefined

\* no roll under way
IdleDice ==
    /\ actionWords = <<>>
    /\ actorCls = "Wojownik"
    /\ relevant = ""
    /\ rollResult = 0
    /\ total = Null

\* an empty snapshot store
IdleSaves ==
    /\ savedBySession = [sid \in SessionIds |-> Undefined]
    /\ posted = [sid \in SessionIds |-> 0]

\* no offline request
IdleRuns == runs = <<>>

IdleUnits == IdleParse /\ IdleDice /\ IdleSaves /\ IdleRuns

Init == InitTurns /\ IdleApply /\ IdleUnits

\* NextResponse.json(body, { status })
Response(status, narration, effects) ==
    [status |-> status, narration |-> narration, effects |-> effects]

\* part_002:116-121: sendToAI up to the fetch; the request carries the
\* client's state as gameState.  Its diceRoll is read by the handler alone and
\* is drawn where the handler reads it.
Submit(t) ==
    /\ turns[t].pc = "idle"
    /\ IF t = 1 THEN TRUE ELSE turns[t - 1].pc # "idle"
    /\ \E sid \in SessionIds, idx \in PlayerIndexes, intro \in BOOLEAN :
          /\ turns' = [turns EXCEPT ![t] =
                 [IdleTurn EXCEPT !.pc = "sent", !.sessionId = sid, !.playerIndex = idx,
                                  !.isIntro = intro,
                                  !.playerAction = IF intro THEN "(Rozpocznij przygode.)"
                                                   ELSE "Atakuj",
                                  !.st = state[sid]]]
          /\ isSending' = [isSending EXCEPT ![sid] = TRUE]
    /\ UNCHANGED <<sessions, state, apiKey, applyVars, unitVars>>

\* route.ts:22-25: RequestSchema rejects the payload
Reject(t) ==
    /\ turns[t].pc = "sent"
    /\ turns[t].playerIndex > MaxPlayerIndex
    /\ turns' = [turns EXCEPT ![t].pc = "responded",
                              ![t].status = 400,
                              ![t].response = Response(400, Undefined, Undefined)]
    /\ UNCHANGED <<sessions, state, isSending, apiKey, applyVars, unitVars>>

\* a handler that works on the game state of the request
readCurrent_FromRequest(m, sessionId, gameState) == gameState

\* route.ts:28-29
readCurrent(m, sessionId, gameState) ==
    IF sessionsGet(m, sessionId) # Undefined THEN sessionsGet(m, sessionId) ELSE gameState

\* route.ts:22-38: the handler without a credential runs to its response
\* without suspending.
Offline(t) ==
    /\ turns[t].pc = "sent"
    /\ turns[t].playerIndex <= MaxPlayerIndex
    /\ ~apiKey
    /\ \E diceRoll \in DiceRolls :
       LET r == turns[t]
           current == readCurrent(sessions, r.sessionId, r.st)
           offline == offlineNarrate(r.playerAction, diceRoll, current, r.isIntro, r.playerIndex)
           next == applyEffects(current, fieldsOf(offline.effects), r.playerIndex)
       IN  /\ sessions' = sessionsSet(sessionsSet(sessions, r.sessionId, current), r.sessionId, next)
           /\ turns' = [turns EXCEPT ![t].pc = "responded",
                                     ![t].status = 200,
                                     ![t].response = Response(200, offline.narration, offline.effects)]
    /\ UNCHANGED <<state, isSending, apiKey, applyVars, unitVars>>

\* route.ts:22-69: with a credential the handler reads the session, stores it
\* back and suspends on generateText.
ReadAndAsk(t) ==
    /\ turns[t].pc = "sent"
    /\ turns[t].playerIndex <= MaxPlayerIndex
    /\ apiKey
    /\ LET r == turns[t]
           current == readCurrent(sessions, r.sessionId, r.st)
       IN  /\ sessions' = sessionsSet(sessions, r.sessionId, current)
           /\ turns' = [turns EXCEPT ![t].pc = "awaiting",
                                     ![t].current = current]
    /\ UNCHANGED <<state, isSending, apiKey, applyVars, unitVars>>

\* route.ts:76-82: generateText resolves with `text`
commit(m, r, text) ==
    LET effects == safeExtractEffects(text)
        e == fieldsOf(IF Truthy(effects) THEN effects ELSE Obj(EmptyEffects))
        next == applyEffects(r.current, e, r.playerIndex)
    IN  sessionsSet(m, r.sessionId, next)

answer(r, text) ==
    LET effects == safeExtractEffects(text)
        e == fieldsOf(IF Truthy(effects) THEN effects ELSE Obj(EmptyEffects))
    IN  Response(200, narrationOf(text),
                 IF effects.type = "object"
                 THEN Obj(effectsAfterApply(r.current, e, r.playerIndex))
                 ELSE effects)

NarratorReturns(t) ==
    /\ turns[t].pc = "awaiting"
    /\ \E text \in NarratorTexts :
          /\ sessions' = commit(sessions, turns[t], text)
          /\ turns' = [turns EXCEPT ![t].pc = "responded", ![t].current = Undefined,
                                    ![t].status = 200,
                                    ![t].response = answer(turns[t], text)]
    /\ UNCHANGED <<state, isSending, apiKey, applyVars, unitVars>>

\* route.ts:83-85: generateText rejects and the catch answers 500
NarratorThrows(t) ==
    /\ turns[t].pc = "awaiting"
    /\ turns' = [turns EXCEPT ![t].pc = "responded", ![t].current = Undefined,
                              ![t].status = 500,
                              ![t].response = Response(500, Undefined, Undefined)]
    /\ UNCHANGED <<sessions, state, isSending, apiKey, applyVars, unitVars>>

\* part_002:130-142: the client applies the returned effects to its own state
mirrorEffects(next, e, playerIndex) ==
    LET a == IF hasActor(next.players, playerIndex)
             THEN [next EXCEPT !.players[playerIndex + 1] =
                      LET actor == next.players[playerIndex + 1]
                          a1 == IF typeof(e.actorHp) = "number"
                                THEN [actor EXCEPT !.hp = clamp(actor.stats.hpBase, e.actorHp.num)]
                                ELSE actor
                          a2 == IF typeof(e.actorMana) = "number"
                                THEN [a1 EXCEPT !.mana = clamp(a1.stats.manaBase, e.actorMana.num)]
                                ELSE a1
                          a3 == IF isArray(e.actorInventory)
                                THEN [a2 EXCEPT !.inventory = e.actorInventory.arr]
                                ELSE a2
                          a4 == IF isArray(e.actorAddItems)
                                THEN [a3 EXCEPT !.inventory =
                                         pushMissing(a3.inventory, e.actorAddItems.arr)]
                                ELSE a3
                      IN  IF isArray(e.actorRemoveItems)
                          THEN [a4 EXCEPT !.inventory =
                                   filterOut(a4.inventory, e.actorRemoveItems.arr)]
                          ELSE a4]
             ELSE next
    IN  [a EXCEPT
            !.goal = IF typeof(e.goal) = "string" THEN e.goal ELSE @,
            !.questLog = IF isArray(e.questLog) THEN e.questLog.arr ELSE @,
            !.isOver = IF typeof(e.isOver) = "boolean" THEN e.isOver.bool ELSE @,
            !.outcome = IF typeof(e.outcome) = "string" THEN e.outcome ELSE @]

\* part_002:123-127
transcriptAfter(r, data) ==
    r.st.messages
    \o (IF r.playerAction # "" /\ ~r.isIntro
        THEN <<[role |-> "user",
                content |-> Str(<<"(",
                                  IF hasActor(r.st.players, r.playerIndex)
                                  THEN r.st.players[r.playerIndex + 1].name
                                  ELSE "undefined",
                                  "): ", r.playerAction>>)]>>
        ELSE <<>>)
    \o <<[role |-> "assistant", content |-> data.narration]>>

\* the closure of a finished sendToAI call is dropped
DoneTurn(r) == [IdleTurn EXCEPT !.pc = "done", !.sessionId = r.sessionId, !.status = r.status]

\* a sendToAI without its finally
clearSending_Skipped(flags, sessionId) == flags

\* part_002:150-152, finally
clearSending(flags, sessionId) == [flags EXCEPT ![sessionId] = FALSE]

\* part_002:122-146 and the finally: the response arrived, whatever its status.
\* The players array of `st` is the array every state of this client shares, so
\* the actor is updated in the players the client holds now.
Receive(t) ==
    /\ turns[t].pc = "responded"
    /\ LET r == turns[t]
           data == r.response
           next == [r.st EXCEPT !.messages = transcriptAfter(r, data),
                                !.players = state[r.sessionId].players]
           e == fieldsOf(IF Truthy(data.effects) THEN data.effects ELSE Obj(EmptyEffects))
       IN  /\ state' = [state EXCEPT ![r.sessionId] = mirrorEffects(next, e, r.playerIndex)]
           /\ isSending' = clearSending(isSending, r.sessionId)
           /\ turns' = [turns EXCEPT ![t] = DoneTurn(r)]
    /\ UNCHANGED <<sessions, apiKey, applyVars, unitVars>>

\* part_002:147-152: fetch itself rejects (the request never reaches the
\* server); the catch appends the apology.
FetchFails(t) ==
    /\ turns[t].pc = "sent"
    /\ LET r == turns[t]
       IN  /\ state' = [state EXCEPT ![r.sessionId] =
                  [r.st EXCEPT !.messages = Append(r.st.messages, Apology),
                               !.players = state[r.sessionId].players]]
           /\ isSending' = clearSending(isSending, r.sessionId)
           /\ turns' = [turns EXCEPT ![t] = [DoneTurn(r) EXCEPT !.status = 0]]
    /\ UNCHANGED <<sessions, apiKey, applyVars, unitVars>>

Next ==
    \E t \in Turns :
        \/ Submit(t)
        \/ Reject(t)
        \/ Offline(t)
        \/ ReadAndAsk(t)
        \/ NarratorReturns(t)
        \/ NarratorThrows(t)
        \/ Receive(t)
        \/ FetchFails(t)

Spec == Init /\ [][Next]_vars

(***************************************************************************)
(* The reducer specifications: applyEffects as a function of its           *)
(* arguments.                                                              *)
(***************************************************************************)
IdleTurns ==
    /\ sessions = [sid \in SessionIds |-> Undefined]
    /\ turns = [t \in Turns |-> IdleTurn]
    /\ state = [sid \in SessionIds |-> emptyGameState]
    /\ isSending = [sid \in SessionIds |-> FALSE]
    /\ apiKey = FALSE
    /\ screen = [sid \in SessionIds |-> "hero"]
    /\ stories = [k \in Stories |-> IdleStory]

\* the values an effects field may carry: well shaped ones and one of the
\* wrong shape
FieldValues(f) ==
    CASE f = "goal" -> {Str("Znajdz dab"), Num(7)}
      [] f = "questLog" -> {Arr(<<"Wyruszono">>), Str("Wyruszono")}
      [] f = "isOver" -> {Bool(TRUE), Bool(FALSE), Str("true")}
      [] f = "outcome" -> {Str("win"), Str("lose"), Str("draw"), Null}
      [] f = "actorHp" -> {Num(0 - 100), Num(0), Num(10), Num(100), Str("10")}
      [] f = "actorMana" -> {Num(0 - 1), Num(3), Num(100), Str("3")}
      [] f = "actorInventory" ->
           {Arr(<<"Pochodnia">>), Arr(<<"Pochodnia", "Pochodnia">>), Str("Pochodnia")}
      [] f = "actorAddItems" ->
           {Arr(<<"Pochodnia">>), Arr(<<"Miecz zelazny">>), Str("Pochodnia")}
      [] f = "actorRemoveItems" ->
           {Arr(<<"Pochodnia">>), Arr(<<"Miecz zelazny">>), Str("Pochodnia")}

\* every effects object with at most MaxEffFields fields
Effects ==
    UNION { { [f \in EffectFields |-> IF f \in fs THEN c[f] ELSE Undefined] :
              c \in {d \in [fs -> UNION {FieldValues(f) : f \in fs}] :
                        \A f \in fs : d[f] \in FieldValues(f)} } :
            fs \in {x \in SUBSET EffectFields : Cardinality(x) <= MaxEffFields} }

ActorIndexes == 0 .. MaxPlayerIndex

\* the games the reducer specifications start from: a party of every size, as
\* the client sets it up
StartGames ==
    { baseGame("wiedzmin", partyOf([k \in 1 .. n |-> IF k = 1 THEN "Wojownik" ELSE "Mag"])) :
        n \in 0 .. MaxPlayers }

\* earlier turns of the game, which bring it to the state the call starts from
SetupEffects ==
    { Effects1("actorHp", Num(0)),
      Effects1("actorHp", Num(10)),
      Effects2("isOver", Bool(TRUE), "outcome", Str("win")) }

\* a game in the middle of play: the first player is down, the others stand
\* at hp 10 (a state two turns with actorHp 0 and actorHp 10 lead to)
MidGames ==
    { [g EXCEPT !.players = [k \in DOMAIN g.players |->
                                [g.players[k] EXCEPT !.hp = IF k = 1 THEN 0 ELSE 10]]] :
        g \in {h \in StartGames : Len(h.players) >= 2} }

\* a lone Wojownik whom an earlier turn left at hp 5
WoundedGames ==
    { applyEffects(baseGame("wiedzmin", partyOf(<<"Wojownik">>)),
                   Effects2("actorHp", Num(5), "questLog", Arr(<<"Wilk rani wojownika">>)),
                   0) }

InitApply ==
    /\ IdleTurns
    /\ IdleUnits
    /\ game \in StartGames \cup MidGames \cup WoundedGames
    /\ eff = EmptyEffects
    /\ actorIndex = 0
    /\ calls = 0

Prepare ==
    /\ calls = 0
    /\ \E e \in SetupEffects, i \in ActorIndexes :
          /\ hasActor(game.players, i)
          /\ game' = applyEffects(game, e, i)
    /\ UNCHANGED <<eff, actorIndex, calls, turnVars, unitVars>>

\* one call next = applyEffects(current, eff, actorIndex)
Call ==
    /\ calls = 0
    /\ \E e \in Effects, i \in ActorIndexes :
          /\ game' = applyEffects(game, e, i)
          /\ eff' = e
          /\ actorIndex' = i
    /\ calls' = 1
    /\ UNCHANGED <<turnVars, unitVars>>

\* the same effects applied once more to the result
Again ==
    /\ calls >= 1
    /\ calls < MaxCalls
    /\ game' = applyEffects(game, eff, actorIndex)
    /\ calls' = calls + 1
    /\ UNCHANGED <<eff, actorIndex, turnVars, unitVars>>

NextApply == Prepare \/ Call \/ Again

SpecApply == InitApply /\ [][NextApply]_vars

\* any sequence of calls, each with effects and an index of its own; a call
\* carries one field, a sequence of calls composes them
SeqEffects == {e \in Effects : Cardinality({f \in EffectFields : e[f] # Undefined}) <= 1}

InitSeq == InitApply

Step ==
    /\ calls < MaxCalls
    /\ \E e \in SeqEffects, i \in ActorIndexes : game' = applyEffects(game, e, i)
    /\ calls' = calls + 1
    /\ UNCHANGED <<eff, actorIndex, turnVars, unitVars>>

NextSeq == Step

SpecSeq == InitSeq /\ [][NextSeq]_vars

(***************************************************************************)
(* The parser specification: route.ts:76-77 on one narrator output.        *)
(***************************************************************************)
MaxSegments == 2     \* segments (prose, block) of one narrator output

\* the segments a narrator output is made of: prose with and without white
\* space around it, and blocks whose body is no JSON, a JSON object, JSON
\* null and a JSON number
Segments ==
    { Prose(<<"Narracja.">>), Prose(<<" ", "Narracja.", " ">>), Prose(<<" ">>),
      Block(Invalid), Block(Obj(EmptyEffects)),
      Block(Obj(Effects1("goal", Str("Znajdz dab")))), Block(Null), Block(Num(7)) }

ParseTexts == UNION {[1 .. n -> Segments] : n \in 0 .. MaxSegments}

InitParse ==
    /\ IdleTurns
    /\ IdleApply
    /\ IdleDice
    /\ IdleSaves
    /\ IdleRuns
    /\ rawText \in ParseTexts
    /\ parsed = Undefined

\* const effects = safeExtractEffects(text); const narration = text.replace(...).trim()
Parse ==
    /\ parsed = Undefined
    /\ parsed' = [effects |-> safeExtractEffects(rawText),
                  narration |-> narrationOf(rawText)]
    /\ UNCHANGED <<rawText, turnVars, applyVars, diceVars, saveVars, runs, pageVars>>

NextParse == Parse

SpecParse == InitParse /\ [][NextParse]_vars

(***************************************************************************)
(* The dice specification: the stat rollAndSend picks for an action.       *)
(***************************************************************************)
MaxWords == 2        \* words of one action text

\* words of an action: with a combat, a social, a search and a magic keyword,
\* in lower and upper case, and without any
CombatWords == {"Atakuje", "CIOS", "walcze"}
SocialWords == {"rozmawiam", "PERSWADUJE"}
SearchWords == {"szukam", "Unikam"}
MagicWords == {"czaruje", "Magia"}
Words == CombatWords \cup SocialWords \cup SearchWords \cup MagicWords \cup {"wilka", "ide"}

DiceSides == 20      \* part_002:162  1 + Math.floor(Math.random() * 20)
MinDiceRoll == 0     \* route.ts:14  .min(0)
MaxDiceRoll == 60    \* route.ts:14  .max(60)

\* a schema that admits the bare d20 only
diceRollSchema_BareRoll(v) ==
    IF v = Null THEN TRUE
    ELSE typeof(v) = "number" /\ v.num >= 1 /\ v.num <= DiceSides

\* route.ts:14  diceRoll: z.number().int().min(0).max(60).nullable()
diceRollSchema(v) ==
    IF v = Null THEN TRUE
    ELSE typeof(v) = "number" /\ v.num >= MinDiceRoll /\ v.num <= MaxDiceRoll

\* part_002:171  actor.stats[relevant] ?? 0, the actor's stats being those
\* createPlayer and TeamSetup.update give the class
statOf(cls, stat) ==
    IF cls \in GameClass THEN defaultStatsFor(cls)[stat] ELSE 0

ActionWords == UNION {[1 .. n -> Words] : n \in 0 .. MaxWords}

\* the words of an action text, a blank between them
RECURSIVE joinWords(_)
joinWords(ws) ==
    IF ws = <<>> THEN ""
    ELSE IF Len(ws) = 1 THEN ws[1]
    ELSE ws[1] \o " " \o joinWords(Tail(ws))

InitDice ==
    /\ IdleTurns
    /\ IdleApply
    /\ IdleParse
    /\ IdleSaves
    /\ IdleRuns
    /\ actionWords \in ActionWords
    /\ actorCls \in GameClass \cup {NoClass}
    /\ relevant = ""
    /\ rollResult = 0
    /\ total = Null

\* part_002:162-173: the roll stops on a face of the d20, the stat is chosen
\* and the total is what sendToAI gets as dice; the server's schema then
\* accepts or rejects it
Resolve ==
    /\ relevant = ""
    /\ relevant' = guessRelevantStat(joinWords(actionWords), actorCls)
    /\ rollResult' \in 1 .. DiceSides
    /\ total' = Num(rollResult' + statOf(actorCls, relevant'))
    /\ UNCHANGED <<actionWords, actorCls, turnVars, applyVars, parseVars, saveVars, runs, pageVars>>

NextDice == Resolve

SpecDice == InitDice /\ [][NextDice]_vars

(***************************************************************************)
(* The single-player variant: its handler (src/unnamed/part_000) and its   *)
(* page (src/unnamed/part_001), next to the party reducer on a party of    *)
(* one. `game` holds the three states side by side.                        *)
(***************************************************************************)
\* part_000:29: the fields of the single-player effects object
SingleFields == {"hp", "mana", "inventory", "questLog", "goal", "isOver", "outcome"}

NoSingleEffects == [f \in SingleFields |-> Undefined]

\* part_001:60-69, resetGameForClass: emptyGameState with the class, its stats
\* and its inventory; hp and mana stay those of emptyGameState
\* (game.ts:114-131)
resetGameForClass(cls) ==
    [playerClass |-> cls, stats |-> defaultStatsFor(cls), hp |-> 20, mana |-> 10,
     inventory |-> initialInventory(cls), questLog |-> <<>>, goal |-> Null,
     isOver |-> FALSE, outcome |-> Null]

\* part_000:57-72: `effects` is null or the object of the narrator's block;
\* each field of the stored state is effects.f ?? current.f
singleApply(current, effects) ==
    IF ~Truthy(effects) THEN current
    ELSE LET e == effects.obj
         IN  [current EXCEPT
                !.hp = IF Nullish(e.hp) THEN @ ELSE e.hp.num,
                !.mana = IF Nullish(e.mana) THEN @ ELSE e.mana.num,
                !.inventory = IF Nullish(e.inventory) THEN @ ELSE e.inventory.arr,
                !.questLog = IF Nullish(e.questLog) THEN @ ELSE e.questLog.arr,
                !.goal = IF Nullish(e.goal) THEN @ ELSE e.goal,
                !.isOver = IF Nullish(e.isOver) THEN @ ELSE e.isOver.bool,
                !.outcome = IF Nullish(e.outcome) THEN @ ELSE e.outcome]

\* part_001:111-123: the page applies data.effects ?? {} to its own state,
\* hp and mana through Math.max(0, .)
singleMirror(st, effects) ==
    LET e == IF Nullish(effects) THEN NoSingleEffects ELSE effects.obj
    IN  [st EXCEPT
           !.hp = Max(0, IF Nullish(e.hp) THEN @ ELSE e.hp.num),
           !.mana = Max(0, IF Nullish(e.mana) THEN @ ELSE e.mana.num),
           !.inventory = IF Nullish(e.inventory) THEN @ ELSE e.inventory.arr,
           !.questLog = IF Nullish(e.questLog) THEN @ ELSE e.questLog.arr,
           !.goal = IF Nullish(e.goal) THEN @ ELSE e.goal,
           !.isOver = IF Nullish(e.isOver) THEN @ ELSE e.isOver.bool,
           !.outcome = IF Nullish(e.outcome) THEN @ ELSE e.outcome]

\* the same effect in the party's vocabulary: hp, mana and inventory are the
\* actor's (route.ts:48-49)
partyEffects(effects) ==
    IF Nullish(effects) THEN EmptyEffects
    ELSE [EmptyEffects EXCEPT
            !.actorHp = effects.obj.hp, !.actorMana = effects.obj.mana,
            !.actorInventory = effects.obj.inventory,
            !.questLog = effects.obj.questLog, !.goal = effects.obj.goal,
            !.isOver = effects.obj.isOver, !.outcome = effects.obj.outcome]

\* the party of one with the starting values of the single-player game
partyOfOne(single) ==
    [baseGame("wiedzmin", <<[createPlayer(defaultName(0), single.playerClass) EXCEPT
                               !.hp = single.hp, !.mana = single.mana]>>)
        EXCEPT !.messages = <<>>]

\* the class whose hpBase and manaBase admit the single-player starting
\* values hp 20 and mana 10
SingleClasses == {c \in GameClass : defaultStatsFor(c).hpBase >= 20
                                    /\ defaultStatsFor(c).manaBase >= 10}

\* what the narrator's block may hold, in the types the prompt names
\* (part_000:29): one field, or none, or no block at all
SingleValues(f) ==
    CASE f = "hp" -> {Num(0 - 5), Num(0), Num(7), Num(100)}
      [] f = "mana" -> {Num(0 - 1), Num(3), Num(100)}
      [] f = "inventory" -> {Arr(<<"Pochodnia">>)}
      [] f = "questLog" -> {Arr(<<"Wyruszono">>)}
      [] f = "goal" -> {Str("Znajdz dab")}
      [] f = "isOver" -> {Bool(TRUE), Bool(FALSE)}
      [] f = "outcome" -> {Str("win"), Str("lose"), Null}

SingleEffects ==
    {Null, Obj(NoSingleEffects)}
        \cup UNION { {Obj([NoSingleEffects EXCEPT ![f] = v]) : v \in SingleValues(f)} :
                       f \in SingleFields }

InitSingle ==
    /\ IdleTurns
    /\ IdleUnits
    /\ \E cls \in SingleClasses :
          LET single == resetGameForClass(cls)
          IN  game = [server |-> single, page |-> single, party |-> partyOfOne(single)]
    /\ eff = Null
    /\ actorIndex = 0
    /\ calls = 0

\* one turn of the single-player game: the handler stores its next state
\* (part_000:57-72), the page its own (part_001:105-124), and the party
\* reducer is given the same effect for its only player
SingleTurn ==
    /\ calls < MaxCalls
    /\ \E effects \in SingleEffects :
          /\ game' = [server |-> singleApply(game.server, effects),
                      page |-> singleMirror(game.page, effects),
                      party |-> applyEffects(game.party, partyEffects(effects), 0)]
          /\ eff' = effects
    /\ calls' = calls + 1
    /\ UNCHANGED <<actorIndex, turnVars, unitVars>>

NextSingle == SingleTurn

SpecSingle == InitSingle /\ [][NextSingle]_vars

(***************************************************************************)
(* The snapshot store: POST /api/session (src/app/api/session/route.ts).   *)
(***************************************************************************)
MaxSaves == 52       \* snapshots one client posts
SavesCap == 50       \* session/route.ts:22  .slice(0, 50)

\* the slice that keeps everything
slice_All(arr, start, end) == arr

\* Array.prototype.slice(start, end), for 0 <= start <= end
slice(arr, start, end) == SubSeq(arr, start + 1, Min(end, Len(arr)))

\* savedBySession.get(sessionId) || { saves: [] }
entryOf(m, sessionId) ==
    IF m[sessionId] # Undefined THEN m[sessionId] ELSE [state |-> Undefined, saves |-> <<>>]

\* the states a client mirrors to the store
MirroredStates == {emptyGameState, baseGame("wiedzmin", partyOf(<<"Mag">>))}

InitSaves ==
    /\ IdleTurns
    /\ IdleApply
    /\ IdleParse
    /\ IdleDice
    /\ IdleSaves
    /\ IdleRuns

\* session/route.ts:14-25 with { sessionId, save }: the client's next
\* snapshot, which carries its number as id
PostSave(sid) ==
    /\ posted[sid] < MaxSaves
    /\ LET save == posted[sid] + 1
           entry == entryOf(savedBySession, sid)
       IN  savedBySession' = [savedBySession EXCEPT ![sid] =
               [entry EXCEPT !.saves = slice(<<save>> \o entry.saves, 0, SavesCap)]]
    /\ posted' = [posted EXCEPT ![sid] = @ + 1]
    /\ UNCHANGED <<turnVars, applyVars, parseVars, diceVars, runs, pageVars>>

\* session/route.ts:14-25 with { sessionId, state }
PostState(sid) ==
    /\ \E st \in MirroredStates :
          LET entry == entryOf(savedBySession, sid)
          IN  savedBySession' = [savedBySession EXCEPT ![sid] = [entry EXCEPT !.state = st]]
    /\ UNCHANGED <<posted, turnVars, applyVars, parseVars, diceVars, runs, pageVars>>

NextSaves == \E sid \in SessionIds : PostSave(sid) \/ PostState(sid)

SpecSaves == InitSaves /\ [][NextSaves]_vars

(***************************************************************************)
(* The offline specification: the same turn served more than once, each    *)
(* time by a handler without a credential whose store holds the same       *)
(* session state once line 29 has run.                                     *)
(***************************************************************************)
MaxRuns == 2         \* times the turn is served

Runs == 1 .. MaxRuns

\* the game once an intro turn has set the goal
afterIntro(g) == applyEffects(g, Effects1("goal", Str(IntroGoal)), 0)

\* a party on its last legs: the first player down, the others at hp 3
lastStand(g) ==
    [g EXCEPT !.players = [k \in DOMAIN g.players |->
                              [g.players[k] EXCEPT !.hp = IF k = 1 THEN 0 ELSE HpLoss]]]

\* the session states a turn starts from: fresh parties, a party with a
\* player down, with and without a goal, and a party on its last legs
OfflineGames ==
    StartGames \cup MidGames \cup {afterIntro(g) : g \in MidGames}
        \cup {lastStand(g) : g \in MidGames}

\* diceRoll values: none, and one in every range offlineNarrate tells apart
OfflineRolls == {Null, Num(LowRoll), Num(LogRoll), Num(HighRoll), Num(WinRoll)}

\* one request: the session state the handler works on is `current`, either
\* found in the store (the request then carries another gameState) or taken
\* from the request
Request(sid, inStore, current, diceRoll, isIntro, playerIndex) ==
    [pc |-> "sent", sessionId |-> sid,
     stored |-> IF inStore THEN current ELSE Undefined,
     gameState |-> IF inStore THEN emptyGameState ELSE current,
     playerAction |-> "Atakuj", diceRoll |-> diceRoll, isIntro |-> isIntro,
     playerIndex |-> playerIndex, response |-> Undefined, next |-> Undefined]

\* the same (session state, playerAction, diceRoll, isIntro, playerIndex) for
\* every run; the session identifier and where the state comes from differ
InitOffline ==
    /\ IdleTurns
    /\ IdleApply
    /\ IdleParse
    /\ IdleDice
    /\ IdleSaves
    /\ \E current \in OfflineGames, diceRoll \in OfflineRolls, isIntro \in BOOLEAN,
          playerIndex \in {0, 1, MaxPlayerIndex} :
          \E sids \in [Runs -> SessionIds], inStore \in [Runs -> BOOLEAN] :
             runs = [k \in Runs |->
                        Request(sids[k], inStore[k], current, diceRoll, isIntro, playerIndex)]

\* route.ts:26-37 for run k
RunOffline(k) ==
    /\ runs[k].pc = "sent"
    /\ LET r == runs[k]
           m == [sid \in SessionIds |-> IF sid = r.sessionId THEN r.stored ELSE Undefined]
           current == readCurrent(m, r.sessionId, r.gameState)
           offline == offlineNarrate(r.playerAction, r.diceRoll, current, r.isIntro,
                                     r.playerIndex)
           next == applyEffects(current, fieldsOf(offline.effects), r.playerIndex)
       IN  runs' = [runs EXCEPT ![k].pc = "done",
                                ![k].response = Response(200, offline.narration, offline.effects),
                                ![k].next = sessionsGet(
                                    sessionsSet(sessionsSet(m, r.sessionId, current),
                                                r.sessionId, next),
                                    r.sessionId)]
    /\ UNCHANGED <<turnVars, applyVars, parseVars, diceVars, saveVars, pageVars>>

NextOffline == \E k \in Runs : RunOffline(k)

SpecOffline == InitOffline /\ [][NextOffline]_vars

(***************************************************************************)
(* The page specification: part_002:57-222, one browser session from the   *)
(* first visit on.  The servers behind /api/story and /api/ai are taken by  *)
(* what they answer; the snapshot the page posts to /api/session after a    *)
(* turn is the subject of the snapshot specification.                       *)
(***************************************************************************)
\* the browser session that acts
Visitors == {"s1"}
\* the worlds the visitor picks among
PageWorlds == {"wiedzmin", "gothic"}
\* the party size the visitor picks (the page offers 1 to 4): the smallest
\* that has a second player to make active
PartySizes == {2}
\* the class the visitor may give the first player in the party set-up
PageClasses == {"Mag"}
\* the player turn the page specification follows into the game; sequences
\* and overlaps of turns are the turn specification's
Rolls == {1}

\* story/route.ts:45,75: the outline of a 200 answer
Outline(worldKey) == [type |-> "object", worldKey |-> worldKey]

\* what /api/ai answers to the page: a narration with effects that set the
\* goal (route.ts:138-146)
PageAnswers ==
    { Response(200, Str(<<"Narracja.">>), Obj(Effects1("goal", Str(IntroGoal)))) }

InitPage == IdleTurns /\ IdleApply /\ IdleParse /\ IdleDice /\ IdleSaves /\ IdleRuns

\* a start button that resumes: it shows the game with the stored state
HeroStart_Resume(c) ==
    /\ screen[c] = "hero"
    /\ screen' = [screen EXCEPT ![c] = "game"]
    /\ UNCHANGED <<turnVars, stories, applyVars, parseVars, diceVars, saveVars, runs>>

\* part_002:184-187 and 73-77, Hero.onStart
HeroStart(c) ==
    /\ screen[c] = "hero"
    /\ state' = [state EXCEPT ![c] = emptyGameState]
    /\ screen' = [screen EXCEPT ![c] = "world"]
    /\ UNCHANGED <<sessions, turns, isSending, apiKey, stories, applyVars,
                   parseVars, diceVars, saveVars, runs>>

\* part_002:193, WorldSelect.onBack
WorldBack(c) ==
    /\ screen[c] = "world"
    /\ screen' = [screen EXCEPT ![c] = "hero"]
    /\ UNCHANGED <<turnVars, stories, applyVars, parseVars, diceVars, saveVars, runs>>

\* part_002:194, WorldSelect.onNext(worldKey, count)
WorldNext(c) ==
    /\ screen[c] = "world"
    /\ \E worldKey \in PageWorlds, count \in PartySizes :
          state' = [state EXCEPT ![c] =
             [state[c] EXCEPT !.world = WORLDS(worldKey),
                              !.players = [i \in 1 .. count |->
                                              createPlayer(defaultName(i - 1), "Wojownik")]]]
    /\ screen' = [screen EXCEPT ![c] = "team"]
    /\ UNCHANGED <<sessions, turns, isSending, apiKey, stories, applyVars,
                   parseVars, diceVars, saveVars, runs>>

\* part_002:197, TeamSetup is on the page
TeamShown(c) == screen[c] = "team" /\ Truthy(state[c].world)

\* part_002:201, TeamSetup.onBack
TeamBack(c) ==
    /\ TeamShown(c)
    /\ screen' = [screen EXCEPT ![c] = "world"]
    /\ UNCHANGED <<turnVars, stories, applyVars, parseVars, diceVars, saveVars, runs>>

\* part_002:378-391 and 202, TeamSetup.update(0, { cls }) then onUpdate
TeamUpdate(c) ==
    /\ TeamShown(c)
    /\ \E i \in DOMAIN state[c].players \cap {1}, cls \in PageClasses :
          state' = [state EXCEPT ![c].players[i] = updateClass(state[c].players[i], cls)]
    /\ UNCHANGED <<sessions, turns, isSending, apiKey, pageVars, applyVars,
                   parseVars, diceVars, saveVars, runs>>

\* part_002:203 and 79-101, TeamSetup.onStart: generateStory up to its fetch
TeamStart(c, k) ==
    /\ TeamShown(c)
    /\ stories[k].pc = "idle"
    /\ IF k = 1 THEN TRUE ELSE stories[k - 1].pc # "idle"
    /\ LET base == baseGame(state[c].world.key, state[c].players)
       IN  /\ state' = [state EXCEPT ![c] = base]
           /\ stories' = [stories EXCEPT ![k] =
                 [IdleStory EXCEPT !.pc = "story", !.sessionId = c,
                                   !.closure = state[c], !.base = base]]
    /\ UNCHANGED <<sessions, turns, isSending, apiKey, screen, applyVars,
                   parseVars, diceVars, saveVars, runs>>

\* part_002:102-107 and 116-121: /api/story answered, with an outline (200) or
\* with an error body (400, 500); the intro turn is sent with the story
StoryReturns(k) ==
    /\ stories[k].pc = "story"
    /\ \E data \in {[outline |-> Outline(stories[k].base.world.key)],
                    [outline |-> Undefined]} :
          LET r == stories[k]
              outline == IF Truthy(data.outline) THEN data.outline ELSE Null
              withStory == [r.base EXCEPT !.story = outline]
          IN  /\ state' = [state EXCEPT ![r.sessionId] = withStory]
              /\ stories' = [stories EXCEPT ![k].pc = "intro", ![k].st = withStory,
                                ![k].playerAction =
                                    "(Rozpocznij przygode zgodnie z zarysem historii.)"]
              /\ isSending' = [isSending EXCEPT ![r.sessionId] = TRUE]
    /\ UNCHANGED <<sessions, turns, apiKey, screen, applyVars,
                   parseVars, diceVars, saveVars, runs>>

\* a generateStory whose catch gives up: no intro turn, no game screen
StoryFails_GivesUp(k) ==
    /\ stories[k].pc = "story"
    /\ stories' = [stories EXCEPT ![k] = [IdleStory EXCEPT !.pc = "done",
                                                           !.sessionId = stories[k].sessionId]]
    /\ UNCHANGED <<turnVars, screen, applyVars, parseVars, diceVars, saveVars, runs>>

\* part_002:109-111 and 116-121: the fetch of /api/story rejects, or its body
\* is no JSON; the intro turn is sent without a story
StoryFails(k) ==
    /\ stories[k].pc = "story"
    /\ stories' = [stories EXCEPT ![k].pc = "intro", ![k].st = stories[k].base,
                                  ![k].playerAction = "(Rozpocznij przygode.)"]
    /\ isSending' = [isSending EXCEPT ![stories[k].sessionId] = TRUE]
    /\ UNCHANGED <<sessions, turns, state, apiKey, screen, applyVars,
                   parseVars, diceVars, saveVars, runs>>

\* part_002:122-146: what sendToAI stores when /api/ai answered `data`
stateAfter(r, data) ==
    LET next == [r.st EXCEPT !.messages = transcriptAfter(r, data)]
        e == fieldsOf(IF Truthy(data.effects) THEN data.effects ELSE Obj(EmptyEffects))
    IN  mirrorEffects(next, e, r.playerIndex)

\* the closure of a finished generateStory call is dropped
DoneStory(r) == [IdleStory EXCEPT !.pc = "done", !.sessionId = r.sessionId]

\* part_002:122-152 then 108 or 112: the intro turn answered, the game shown
IntroReturns(k) ==
    /\ stories[k].pc = "intro"
    /\ \E data \in PageAnswers :
          state' = [state EXCEPT ![stories[k].sessionId] = stateAfter(stories[k], data)]
    /\ isSending' = clearSending(isSending, stories[k].sessionId)
    /\ screen' = [screen EXCEPT ![stories[k].sessionId] = "game"]
    /\ stories' = [stories EXCEPT ![k] = DoneStory(stories[k])]
    /\ UNCHANGED <<sessions, turns, apiKey, applyVars, parseVars, diceVars, saveVars, runs>>

\* part_002:147-152 then 108 or 112: the fetch of the intro turn rejects; the
\* catch works on the `state` of the render generateStory was called in
IntroFails(k) ==
    /\ stories[k].pc = "intro"
    /\ LET r == stories[k]
       IN  state' = [state EXCEPT ![r.sessionId] =
                        [r.closure EXCEPT !.messages = Append(r.closure.messages, Apology)]]
    /\ isSending' = clearSending(isSending, stories[k].sessionId)
    /\ screen' = [screen EXCEPT ![stories[k].sessionId] = "game"]
    /\ stories' = [stories EXCEPT ![k] = DoneStory(stories[k])]
    /\ UNCHANGED <<sessions, turns, apiKey, applyVars, parseVars, diceVars, saveVars, runs>>

\* part_002:212, GameArea.onSetActive(idx)
SetActive(c) ==
    /\ screen[c] = "game"
    /\ \E idx \in 0 .. Len(state[c].players) - 1 :
          /\ idx # state[c].activeIndex
          /\ state' = [state EXCEPT ![c].activeIndex = idx]
    /\ UNCHANGED <<sessions, turns, isSending, apiKey, pageVars, applyVars,
                   parseVars, diceVars, saveVars, runs>>

\* part_002:155-160 with 519-534: an action button or the form, which are
\* disabled while a turn is in flight or the game is over, starts the roll
RollAndSend(c, t) ==
    /\ screen[c] = "game"
    /\ ~isSending[c]
    /\ ~state[c].isOver
    /\ hasActor(state[c].players, state[c].activeIndex)
    /\ turns[t].pc = "idle"
    /\ IF t = 1 THEN TRUE ELSE turns[t - 1].pc # "idle"
    /\ turns' = [turns EXCEPT ![t] =
          [IdleTurn EXCEPT !.pc = "rolling", !.sessionId = c,
                           !.playerIndex = state[c].activeIndex,
                           !.playerAction = "Atakuj", !.st = state[c]]]
    /\ UNCHANGED <<sessions, state, isSending, apiKey, pageVars, applyVars,
                   parseVars, diceVars, saveVars, runs>>

\* part_002:165-173 and 116-121: the roll is over, the turn is sent
SendToAI(t) ==
    /\ turns[t].pc = "rolling"
    /\ turns' = [turns EXCEPT ![t].pc = "sent"]
    /\ isSending' = [isSending EXCEPT ![turns[t].sessionId] = TRUE]
    /\ UNCHANGED <<sessions, state, apiKey, pageVars, applyVars,
                   parseVars, diceVars, saveVars, runs>>

\* part_002:122-152: the turn answered
TurnReturns(t) ==
    /\ turns[t].pc = "sent"
    /\ \E data \in PageAnswers :
          /\ state' = [state EXCEPT ![turns[t].sessionId] = stateAfter(turns[t], data)]
          /\ turns' = [turns EXCEPT ![t] = [DoneTurn(turns[t]) EXCEPT !.status = data.status]]
    /\ isSending' = clearSending(isSending, turns[t].sessionId)
    /\ UNCHANGED <<sessions, apiKey, pageVars, applyVars, parseVars, diceVars, saveVars, runs>>

\* part_002:147-152: the fetch of the turn rejects; `state` is the one of the
\* render the roll started in, which is `st`
TurnFails(t) ==
    /\ turns[t].pc = "sent"
    /\ LET r == turns[t]
       IN  state' = [state EXCEPT ![r.sessionId] =
                        [r.st EXCEPT !.messages = Append(r.st.messages, Apology)]]
    /\ turns' = [turns EXCEPT ![t] = [DoneTurn(turns[t]) EXCEPT !.status = 0]]
    /\ isSending' = clearSending(isSending, turns[t].sessionId)
    /\ UNCHANGED <<sessions, apiKey, pageVars, applyVars, parseVars, diceVars, saveVars, runs>>

\* a request of the page settles
StorySettles(k) == StoryReturns(k) \/ StoryFails(k)
IntroSettles(k) == IntroReturns(k) \/ IntroFails(k)

NextPage ==
    \/ \E c \in Visitors :
          \/ HeroStart(c)
          \/ WorldBack(c)
          \/ WorldNext(c)
          \/ TeamBack(c)
          \/ TeamUpdate(c)
          \/ SetActive(c)
          \/ \E k \in Stories : TeamStart(c, k)
          \/ \E t \in Rolls : RollAndSend(c, t)
    \/ \E k \in Stories : StorySettles(k) \/ IntroSettles(k)
    \/ \E t \in Rolls : SendToAI(t) \/ TurnReturns(t) \/ TurnFails(t)

SpecPage == InitPage /\ [][NextPage]_vars

(***************************************************************************)
(* The page in front of the handler without a credential: a visitor plays, *)
(* loads the page again and starts a new game; the session identifier is   *)
(* the one ensureSessionId stored on the first visit.                      *)
(***************************************************************************)
\* part_002:15-34 and 58-60: the page is loaded again. 'rpg_screen' holds a
\* string, which has no stateVersion, so the screen is 'hero' again; the
\* stored state, which has one, is restored, and isSending starts false. The
\* session identifier is read from localStorage (part_002:36-44). A reload
\* with a request in flight is not followed.
Reload(c) ==
    /\ screen[c] = "game"
    /\ \A t \in Turns : turns[t].sessionId = c => turns[t].pc = "done"
    /\ screen' = [screen EXCEPT ![c] = "hero"]
    /\ isSending' = [isSending EXCEPT ![c] = FALSE]
    /\ UNCHANGED <<sessions, turns, state, apiKey, stories, applyVars,
                   parseVars, diceVars, saveVars, runs>>

\* part_002:203, 79-87 and 109-118, TeamSetup.onStart: generateStory stores
\* the base state and, /api/story giving no outline, sends the intro turn
\* with it. Once an intro turn has settled, the continuation that shows the
\* game runs before any further click; a second click while the intro turn is
\* in flight is not followed.
StartIntro(c, t) ==
    /\ TeamShown(c)
    /\ ~isSending[c]
    /\ Len(state[c].messages) <= 1
    /\ turns[t].pc = "idle"
    /\ IF t = 1 THEN TRUE ELSE turns[t - 1].pc # "idle"
    /\ LET base == baseGame(state[c].world.key, state[c].players)
       IN  /\ state' = [state EXCEPT ![c] = base]
           /\ turns' = [turns EXCEPT ![t] =
                 [IdleTurn EXCEPT !.pc = "sent", !.sessionId = c, !.playerIndex = 0,
                                  !.isIntro = TRUE,
                                  !.playerAction = "(Rozpocznij przygode.)",
                                  !.st = base]]
    /\ isSending' = [isSending EXCEPT ![c] = TRUE]
    /\ UNCHANGED <<sessions, apiKey, pageVars, applyVars,
                   parseVars, diceVars, saveVars, runs>>

\* part_002:108 and 112: the intro turn has settled, setScreen('game')
ShowGame(c) ==
    /\ screen[c] = "team"
    /\ ~isSending[c]
    /\ Len(state[c].messages) > 1
    /\ screen' = [screen EXCEPT ![c] = "game"]
    /\ UNCHANGED <<turnVars, stories, applyVars, parseVars, diceVars, saveVars, runs>>

\* part_002:155-176: a turn of the player on the game screen
PlayTurn(t) ==
    /\ Submit(t)
    /\ ~turns'[t].isIntro
    /\ screen[turns'[t].sessionId] = "game"

NextReset ==
    \/ \E c \in Visitors :
          \/ Reload(c)
          \/ HeroStart(c)
          \/ WorldNext(c)
          \/ ShowGame(c)
          \/ \E t \in Turns : StartIntro(c, t)
    \/ \E t \in Turns :
          PlayTurn(t) \/ Reject(t) \/ Offline(t) \/ Receive(t) \/ FetchFails(t)

SpecReset == InitPage /\ [][NextReset]_vars

\* the game screen alone: the clients of the turn specification roll and
\* send their turns through the page's buttons, as many as there are turns
NextRolls ==
    \/ \E c \in SessionIds :
          \/ SetActive(c)
          \/ \E t \in Turns : RollAndSend(c, t)
    \/ \E t \in Turns : SendToAI(t) \/ TurnReturns(t) \/ TurnFails(t)

SpecRolls == Init /\ [][NextRolls]_vars

\* every fetch the page makes settles: it is answered or it rejects
FairPage ==
    /\ SpecPage
    /\ \A k \in Stories : WF_vars(StorySettles(k)) /\ WF_vars(IntroSettles(k))

(***************************************************************************)
(* Properties.                                                             *)
(***************************************************************************)
\* the fields of a game a turn may change, the transcript left out
Core(g) ==
    [goal |-> g.goal, questLog |-> g.questLog, isOver |-> g.isOver,
     outcome |-> g.outcome,
     players |-> [k \in DOMAIN g.players |->
                    [hp |-> g.players[k].hp, mana |-> g.players[k].mana,
                     inventory |-> g.players[k].inventory]]]

InFlight(t) == turns[t].pc \in {"sent", "awaiting", "responded"}

\* turn t commits in this step: its handler stores the next state and answers 200
Commits(t) ==
    /\ turns[t].pc = "awaiting"
    /\ turns'[t].pc = "responded"
    /\ turns'[t].status = 200

\* the effects object a response carries, as the reducer reads it
responseEffects(response) ==
    fieldsOf(IF Truthy(response.effects) THEN response.effects ELSE Obj(EmptyEffects))

\* C1: two turns submitted concurrently for one sessionId make two sequential
\* commits and no update is lost: every commit stores the turn's effects
\* applied to the state the store holds at that moment, so the final state
\* reflects the effects of both turns.
C1_NoLostUpdate ==
    [][\A t \in Turns :
          Commits(t) =>
             sessions'[turns[t].sessionId] =
                applyEffects(sessions[turns[t].sessionId],
                             responseEffects(turns'[t].response),
                             turns[t].playerIndex)]_vars

\* C2: for each sessionId at most one turn is between its read of the stored
\* session and its commit.
C2_OneTurnInCriticalSection ==
    \A sid \in SessionIds :
       Cardinality({t \in Turns : turns[t].pc = "awaiting" /\ turns[t].sessionId = sid}) <= 1

\* C3: after any sequence of applyEffects calls on a party built by
\* createPlayer, every player has 0 <= hp <= stats.hpBase and
\* 0 <= mana <= stats.manaBase.
C3_HpManaInRange ==
    \A k \in DOMAIN game.players :
       /\ 0 <= game.players[k].hp
       /\ game.players[k].hp <= game.players[k].stats.hpBase
       /\ 0 <= game.players[k].mana
       /\ game.players[k].mana <= game.players[k].stats.manaBase

\* two calls have run, and they clamped the first player's hp and mana at the
\* lower bound (mana starts at manaBase and only a negative value brings it to 0)
C3_Witness ==
    /\ calls = MaxCalls
    /\ Len(game.players) = MaxPlayers
    /\ game.players[1].hp = 0
    /\ game.players[1].mana = 0
    /\ ~game.isOver

\* C4: applyEffects on a session that is over returns it unchanged in every
\* field but the transcript, for every effects object and index.
C4_TerminalUnchanged ==
    [][(game.isOver /\ calls' > calls) => Core(game') = Core(game)]_vars

\* C5: whenever applying an effect leaves every player of a non-empty party
\* with hp = 0, the result has isOver = true and outcome = lose, whatever
\* outcome or isOver the effect itself carried.
C5_AllDownIsLoss ==
    (Len(game.players) # 0 /\ \A k \in DOMAIN game.players : game.players[k].hp = 0)
    => (game.isOver /\ game.outcome = Str("lose"))

\* the effect that brought the last player down declared a win
C5_Witness ==
    /\ calls = 1
    /\ eff.actorHp = Num(0 - 100)
    /\ eff.outcome = Str("win")
    /\ Len(game.players) = MaxPlayers
    /\ \A k \in DOMAIN game.players : game.players[k].hp = 0
    /\ game.isOver
    /\ game.outcome = Str("lose")

\* C6: once the stored session of a sessionId is over it stays over after
\* every later turn.
C6_TerminalStays ==
    [][\A sid \in SessionIds :
          (sessions[sid] # Undefined /\ sessions[sid].isOver) => sessions'[sid].isOver]_vars

\* C7: a failed turn never leaves a session blocked: a turn whose narrator
\* call failed has been answered and nothing keeps the client from completing
\* it, and whenever no turn of a client is in flight its isSending flag is
\* clear, so a later turn can be submitted.
C7_FailedTurnCompletes ==
    /\ \A t \in Turns :
          (turns[t].pc = "responded" /\ turns[t].status = 500) => ENABLED Receive(t)
    /\ \A sid \in SessionIds :
          (\A t \in Turns : turns[t].sessionId = sid => ~InFlight(t)) => ~isSending[sid]

\* a turn failed on the narrator and a later turn of the same session committed
C7_Witness ==
    \E t1, t2 \in Turns :
       /\ t1 < t2
       /\ turns[t1].pc = "done" /\ turns[t1].status = 500
       /\ turns[t2].pc = "done" /\ turns[t2].status = 200
       /\ turns[t2].sessionId = turns[t1].sessionId
       /\ ~isSending[turns[t1].sessionId]
       /\ sessions[turns[t1].sessionId].isOver

\* C8: when the narrator throws during a turn, the narration the turn appends
\* to the transcript is the fixed apology and the turn changes no other field
\* of the session.
C8_ApologyOnNarratorFailure ==
    [][\A t \in Turns :
          /\ (turns[t].pc = "awaiting" /\ turns'[t].status = 500) => sessions' = sessions
          /\ (turns[t].pc = "responded" /\ turns[t].status = 500 /\ turns'[t].pc = "done") =>
                LET sid == turns[t].sessionId
                IN  /\ state'[sid].messages[Len(state'[sid].messages)] = Apology
                    /\ Core(state'[sid]) = Core(state[sid])]_vars

\* the playerIndex of turn t's request indexes no player of the session the
\* store holds for its sessionId
InvalidIndex(t) ==
    \/ /\ turns[t].pc = "sent"
       /\ sessions[turns[t].sessionId] # Undefined
       /\ ~hasActor(sessions[turns[t].sessionId].players, turns[t].playerIndex)
    \/ /\ turns[t].pc = "awaiting"
       /\ ~hasActor(turns[t].current.players, turns[t].playerIndex)

\* C9: a turn with invalid caller input (here: an acting-player index that
\* indexes no player of the session) is rejected and leaves the stored session
\* as it was.
C9_InvalidIndexRejected ==
    [][\A t \in Turns :
          (InvalidIndex(t) /\ turns'[t] # turns[t]) =>
             /\ sessions' = sessions
             /\ turns'[t].pc = "responded" => turns'[t].status # 200]_vars

\* C10: a turn for one sessionId never changes what is stored for another:
\* whatever a step changes in the store, it changes for the session of the
\* turn that took the step.
C10_NoCrossSession ==
    [][\A sid \in SessionIds, t \in Turns :
          (sessions'[sid] # sessions[sid] /\ turns'[t] # turns[t]) =>
             turns[t].sessionId = sid]_vars

\* turns of both sessions committed, and each store entry holds its own game
C10_Witness ==
    /\ \A sid \in SessionIds :
          /\ sessions[sid] # Undefined
          /\ \E t \in Turns : turns[t].pc = "done" /\ turns[t].status = 200
                              /\ turns[t].sessionId = sid
    /\ sessions["s1"].isOver
    /\ ~sessions["s2"].isOver

(***************************************************************************)
(* The reducer's scenarios and the inventory rules.                        *)
(***************************************************************************)
\* two players, the first down, the second at hp 10, the game not over
PartlyDown(g) ==
    /\ Len(g.players) = 2
    /\ g.players[1].hp = 0
    /\ g.players[2].hp = 10
    /\ ~g.isOver

\* the call's effects end the game themselves: a boolean isOver, or an actorHp
\* that brings the standing player down
EndsGame(e, i) ==
    \/ typeof(e.isOver) = "boolean"
    \/ i = 1 /\ typeof(e.actorHp) = "number" /\ e.actorHp.num <= 0

\* C11, as stated: with two players of whom only player 0 is down (player 1 at
\* hp 10) and the game not over, a call of applyEffects with any effects, for
\* either acting player, leaves isOver = false.
C11_AnyEffectKeepsOpen ==
    [][(PartlyDown(game) /\ calls' > calls) => ~game'.isOver]_vars

\* C11, amended: with two players of whom only player 0 is down (player 1 at
\* hp 10) and the game not over, a call of applyEffects whose effects carry no
\* boolean isOver and no actorHp <= 0 for player 1 leaves isOver = false: the
\* auto-lose does not fire while a player stands.
C11_PartlyDownStaysOpen ==
    [][(PartlyDown(game) /\ calls' > calls /\ ~EndsGame(eff', actorIndex'))
          => ~game'.isOver]_vars

\* C11 witness: a lethal actorHp for the player who is already down was applied
\* to the scenario's game (twice over), and the game is still open.
C11_Witness ==
    /\ calls = 2
    /\ eff = Effects1("actorHp", Num(0 - 100))
    /\ actorIndex = 0
    /\ PartlyDown(game)

\* how many times an inventory holds an item
occurrences(inventory, x) == Cardinality({k \in DOMAIN inventory : inventory[k] = x})

\* the effects carry actorAddItems = [x] and touch the inventory in no other way
AddsOne(e) ==
    /\ isArray(e.actorAddItems)
    /\ Len(e.actorAddItems.arr) = 1
    /\ ~isArray(e.actorInventory)
    /\ ~isArray(e.actorRemoveItems)

\* C12: an effect with actorAddItems = [x] applied a second time to the same
\* acting player leaves the inventory as the first application left it, and
\* that inventory holds x exactly once.
C12_AddItemsIdempotent ==
    [][(calls >= 1 /\ calls' = calls + 1 /\ AddsOne(eff)
            /\ hasActor(game.players, actorIndex))
          => /\ game'.players[actorIndex + 1].inventory
                    = game.players[actorIndex + 1].inventory
             /\ occurrences(game'.players[actorIndex + 1].inventory,
                            eff.actorAddItems.arr[1]) = 1]_vars

\* C12 witness: actorAddItems = ["Pochodnia"] was applied twice to the second
\* player, who now holds the torch once, after the items the player started
\* with (those of the class the player was created as).
C12_Witness ==
    /\ calls = 2
    /\ AddsOne(eff)
    /\ eff.actorAddItems = Arr(<<"Pochodnia">>)
    /\ actorIndex = 1
    /\ hasActor(game.players, 1)
    /\ game.players[2].inventory = Append(initialInventory("Wojownik"), "Pochodnia")

\* the effects carry an actorRemoveItems list and nothing else
RemovesOnly(e) ==
    /\ isArray(e.actorRemoveItems)
    /\ \A f \in EffectFields \ {"actorRemoveItems"} : e[f] = Undefined

\* C13: actorRemoveItems = [x] applied to an acting player whose inventory
\* does not hold x changes nothing: the inventory keeps its items and their
\* order, and every other field of the game is as it was.
C13_RemoveAbsentIsNoOp ==
    [][(calls' > calls /\ RemovesOnly(eff') /\ hasActor(game.players, actorIndex')
            /\ \A k \in DOMAIN eff'.actorRemoveItems.arr :
                  ~includes(game.players[actorIndex' + 1].inventory,
                            eff'.actorRemoveItems.arr[k]))
          => game' = game]_vars

\* C13 witness: actorRemoveItems = ["Pochodnia"] was applied to the first
\* player, wounded earlier, who holds the starting items and no torch.
C13_Witness ==
    /\ calls = 1
    /\ eff = Effects1("actorRemoveItems", Arr(<<"Pochodnia">>))
    /\ actorIndex = 0
    /\ hasActor(game.players, 0)
    /\ game.players[1].hp = 10
    /\ game.players[1].inventory = initialInventory("Wojownik")

(***************************************************************************)
(* The parser.                                                             *)
(***************************************************************************)
\* the output holds no delimited block
NoBlock(t) == \A k \in DOMAIN t : t[k].kind = "prose"

\* the characters of an output without blocks, piece by piece
RECURSIVE rawOf(_)
rawOf(t) == IF t = <<>> THEN <<>> ELSE Head(t).pieces \o rawOf(Tail(t))

\* n is raw without the white space at its two ends
IsTrimOf(n, raw) ==
    /\ n = <<>> \/ (n[1] # " " /\ n[Len(n)] # " ")
    /\ \E a, b \in 0 .. Len(raw) :
          /\ a + b <= Len(raw)
          /\ n = SubSeq(raw, a + 1, Len(raw) - b)
          /\ \A k \in 1 .. a : raw[k] = " "
          /\ \A k \in (Len(raw) - b + 1) .. Len(raw) : raw[k] = " "

\* C14, as stated: a narrator output without a delimited block parses to an
\* absent effect and to a narration that is not empty and is the output
\* unchanged.
C14_NoBlockUnchanged ==
    (parsed # Undefined /\ NoBlock(rawText))
        => /\ parsed.effects = Null
           /\ parsed.narration = Str(rawOf(rawText))
           /\ rawOf(rawText) # <<>>

\* C14, amended: a narrator output without a delimited block parses to an
\* absent effect and to a narration that is the output without the white
\* space around it; so the narration is the output unchanged, and not empty,
\* when the output is not empty and neither starts nor ends with white space.
C14_NoBlockTrimmed ==
    (parsed # Undefined /\ NoBlock(rawText))
        => /\ parsed.effects = Null
           /\ parsed.narration.type = "string"
           /\ IsTrimOf(parsed.narration.str, rawOf(rawText))

\* C14 witness: an output of prose between white space was parsed: no
\* effect, the prose as narration.
C14_Witness ==
    /\ rawText = <<Prose(<<" ", "Narracja.", " ">>)>>
    /\ parsed # Undefined
    /\ parsed.effects = Null
    /\ parsed.narration = Str(<<"Narracja.">>)

(***************************************************************************)
(* The dice resolver.                                                      *)
(***************************************************************************)
\* C15: for every class, an action text that holds a combat keyword resolves
\* to strength, whatever the class and whatever other keyword the text holds;
\* so does "Atakuje wilka".
C15_CombatIsStrength ==
    (relevant # "" /\ \E k \in DOMAIN actionWords : actionWords[k] \in CombatWords)
        => relevant = "strength"

\* C15 witness: "Atakuje wilka" was resolved for a Mag, whose default is
\* wisdom, to strength.
C15_Witness ==
    /\ actionWords = <<"Atakuje", "wilka">>
    /\ actorCls = "Mag"
    /\ relevant = "strength"

(***************************************************************************)
(* The invariants of the game state.                                       *)
(***************************************************************************)
\* C16: in every state the reducer produces, a recorded outcome (win or lose)
\* comes with isOver = true.
C16_OutcomeImpliesOver == game.outcome # Null => game.isOver

\* C17: in every state the reducer produces, no player's inventory holds an
\* item name twice.
C17_InventorySetLike ==
    \A k \in DOMAIN game.players :
        \A a, b \in DOMAIN game.players[k].inventory :
            game.players[k].inventory[a] = game.players[k].inventory[b] => a = b

\* C18: in every state the reducer produces, outcome is none, win or lose.
C18_OutcomeDomain == game.outcome \in {Null, Str("win"), Str("lose")}

(***************************************************************************)
(* The snapshot store.                                                     *)
(***************************************************************************)
\* C19: for every session, the stored snapshots are the most recent ones,
\* newest first in the order they were posted, and never more than the cap:
\* with n snapshots posted the list is n, n-1, ... down to the oldest that
\* fits under the cap.
C19_SavesNewestFirstCapped ==
    \A sid \in SessionIds :
        LET saves == entryOf(savedBySession, sid).saves
        IN  /\ Len(saves) = Min(posted[sid], SavesCap)
            /\ \A k \in DOMAIN saves : saves[k] = posted[sid] - k + 1

\* C19 witness: one session got two snapshots more than the cap: the list
\* is full, the newest at its head, the two oldest gone.
C19_Witness ==
    \E sid \in SessionIds :
        /\ posted[sid] = SavesCap + 2
        /\ savedBySession[sid] # Undefined
        /\ Len(savedBySession[sid].saves) = SavesCap
        /\ savedBySession[sid].saves[1] = SavesCap + 2
        /\ savedBySession[sid].saves[SavesCap] = 3

(***************************************************************************)
(* The offline mode.                                                       *)
(***************************************************************************)
\* the session state run k works on
currentOf(r) == IF r.stored # Undefined THEN r.stored ELSE r.gameState

actorBefore == game.players[actorIndex' + 1]
actorAfter == game'.players[actorIndex' + 1]

\* a step that calls applyEffects(game, eff', actorIndex')
IsCall == calls' > calls

\* C23: when one effects object carries a wholesale actorInventory together
\* with actorAddItems or actorRemoveItems, the acting player's inventory after
\* the call is exactly the wholesale list.
C23_WholesaleWins ==
    [][(IsCall /\ hasActor(game.players, actorIndex') /\ isArray(eff'.actorInventory)
            /\ (isArray(eff'.actorAddItems) \/ isArray(eff'.actorRemoveItems)))
          => actorAfter.inventory = eff'.actorInventory.arr]_vars

\* v held between 0 and base
bounded(base, v) == IF v < 0 THEN 0 ELSE IF v > base THEN base ELSE v

\* C24: a numeric actorHp v leaves the acting player's hp at max(0, min(hpBase, v)),
\* a numeric actorMana likewise with manaBase; and when the call leaves every
\* player at hp 0 or below, as a Wojownik alone at hp 5 who receives -100, the
\* game is over and lost.
C24_HpManaClamped ==
    [][(IsCall /\ hasActor(game.players, actorIndex'))
          => /\ typeof(eff'.actorHp) = "number"
                  => actorAfter.hp = bounded(actorBefore.stats.hpBase, eff'.actorHp.num)
             /\ typeof(eff'.actorMana) = "number"
                  => actorAfter.mana = bounded(actorBefore.stats.manaBase, eff'.actorMana.num)
             /\ (typeof(eff'.actorHp) = "number"
                   /\ \A k \in DOMAIN game'.players : game'.players[k].hp <= 0)
                  => (game'.isOver /\ game'.outcome = Str("lose"))]_vars

\* C24 witness: the lone Wojownik whom the wolf left at hp 5 received
\* actorHp = -100: hp 0, the game over and lost.
C24_Witness ==
    /\ calls = 1
    /\ eff = Effects1("actorHp", Num(0 - 100))
    /\ actorIndex = 0
    /\ Len(game.players) = 1
    /\ game.players[1].cls = "Wojownik"
    /\ game.questLog = <<"Wilk rani wojownika">>
    /\ game.players[1].hp = 0
    /\ game.isOver /\ game.outcome = Str("lose")

\* C25: a call with the absent effect (no field at all) returns the game as it
\* was, for every game and every actor index.
C25_AbsentEffectIsNoOp ==
    [][(IsCall /\ eff' = EmptyEffects) => game' = game]_vars

\* C25 witness: the absent effect was applied three times, for an index that
\* names no player, to a game with a quest log and a wounded player: the game is as it
\* was.
C25_Witness ==
    /\ calls = 3
    /\ eff = EmptyEffects
    /\ actorIndex = 1
    /\ game \in WoundedGames

\* the type the reducer expects of an effects field
WellShaped(f, v) ==
    CASE f \in {"goal", "outcome"} -> v.type = "string"
      [] f = "isOver" -> v.type = "boolean"
      [] f \in {"actorHp", "actorMana"} -> v.type = "number"
      [] OTHER -> v.type = "array"

\* every player of the game is at hp 0 or below
AllDown(g) == Len(g.players) # 0 /\ \A k \in DOMAIN g.players : g.players[k].hp <= 0

\* C26: every call completes with a game of the same shape; a field of the
\* wrong shape leaves its state field as it was, and the well shaped fields of
\* the same effects are applied (isOver and outcome as far as the auto-lose
\* does not set them).
C26_WrongShapeDropped ==
    [][IsCall
          => LET e == eff'
             IN  /\ DOMAIN game' = DOMAIN game
                 /\ Len(game'.players) = Len(game.players)
                 /\ game'.goal = IF WellShaped("goal", e.goal) THEN e.goal ELSE game.goal
                 /\ game'.questLog = IF WellShaped("questLog", e.questLog) THEN e.questLog.arr
                                     ELSE game.questLog
                 /\ ~AllDown(game')
                      => /\ game'.isOver = IF WellShaped("isOver", e.isOver) THEN e.isOver.bool
                                           ELSE game.isOver
                         /\ game'.outcome = IF WellShaped("outcome", e.outcome) THEN e.outcome
                                            ELSE game.outcome
                 /\ hasActor(game.players, actorIndex')
                      => /\ ~WellShaped("actorHp", e.actorHp) => actorAfter.hp = actorBefore.hp
                         /\ WellShaped("actorHp", e.actorHp)
                              => actorAfter.hp = bounded(actorBefore.stats.hpBase, e.actorHp.num)
                         /\ ~WellShaped("actorMana", e.actorMana)
                              => actorAfter.mana = actorBefore.mana
                         /\ WellShaped("actorMana", e.actorMana)
                              => actorAfter.mana
                                    = bounded(actorBefore.stats.manaBase, e.actorMana.num)
                         /\ (\A f \in {"actorInventory", "actorAddItems", "actorRemoveItems"} :
                                ~WellShaped(f, e[f]))
                              => actorAfter.inventory = actorBefore.inventory
                         /\ (WellShaped("actorInventory", e.actorInventory)
                               /\ ~WellShaped("actorAddItems", e.actorAddItems)
                               /\ ~WellShaped("actorRemoveItems", e.actorRemoveItems))
                              => actorAfter.inventory = e.actorInventory.arr]_vars

\* C26 witness: effects with a number as goal and a well shaped actorHp were
\* applied to the first player of a fresh party of two: the goal is still
\* none, the hp is the one the effects carry.
C26_Witness ==
    /\ calls = 1
    /\ eff = Effects2("goal", Num(7), "actorHp", Num(10))
    /\ actorIndex = 0
    /\ Len(game.players) = 2
    /\ game.goal = Null
    /\ game.players[1].hp = 10
    /\ game.players[2].hp = defaultStatsFor("Mag").hpBase

\* C27: a call changes hp, mana and inventory of the acting player alone:
\* every other player is as before, no player's name, class or base stats
\* change, and with an index that names no player no player changes.
C27_OnlyActorChanges ==
    [][IsCall
          => /\ Len(game'.players) = Len(game.players)
             /\ \A k \in DOMAIN game.players :
                   /\ k # actorIndex' + 1 => game'.players[k] = game.players[k]
                   /\ game'.players[k].stats = game.players[k].stats
                   /\ game'.players[k].name = game.players[k].name
                   /\ game'.players[k].cls = game.players[k].cls
             /\ ~hasActor(game.players, actorIndex') => game'.players = game.players]_vars

\* C27 witness: a lethal actorHp and a wholesale inventory were applied to the
\* second player of a fresh party: that player is down and holds the torch,
\* the first player is as created.
C27_Witness ==
    /\ calls = 1
    /\ eff = Effects2("actorHp", Num(0 - 100), "actorInventory", Arr(<<"Pochodnia">>))
    /\ actorIndex = 1
    /\ Len(game.players) = 2
    /\ game.players[2].hp = 0
    /\ game.players[2].inventory = <<"Pochodnia">>
    /\ game.players[1] = createPlayer(defaultName(0), "Wojownik")
    /\ ~game.isOver

(***************************************************************************)
(* The page: from the world selection to the game.                         *)
(***************************************************************************)
\* C21: whether /api/story answers with an outline, answers with an error
\* body that holds none, or the request fails outright, generateStory sends
\* the intro turn at once, and, every request settling, the call ends with
\* the game screen shown.
C21_OutlineNeverBlocks ==
    /\ [][\A k \in Stories :
            (stories[k].pc = "story" /\ stories'[k].pc # "story")
                => /\ stories'[k].pc = "intro"
                   /\ stories'[k].isIntro
                   /\ stories'[k].st.story \in {Null, Outline(stories[k].base.world.key)}
                   /\ isSending'[stories[k].sessionId]]_vars
    /\ \A k \in Stories :
          (stories[k].pc = "story")
              ~> (stories[k].pc = "done" /\ screen[stories[k].sessionId] = "game")

\* C21 witness: the game is shown with a state that has no outline and a
\* transcript that ends with the narration of the intro turn.
C21_Witness ==
    \E c \in Visitors :
        /\ screen[c] = "game"
        /\ \E k \in Stories : stories[k].pc = "done" /\ stories[k].sessionId = c
        /\ state[c].story = Null
        /\ state[c].messages
             = <<SystemGreeting, [role |-> "assistant", content |-> Str(<<"Narracja.">>)]>>
        /\ state[c].goal = Str(IntroGoal)

\* a is a prefix of b
IsPrefix(a, b) == Len(a) <= Len(b) /\ SubSeq(b, 1, Len(a)) = a

\* a step in which a turn of visitor c settles: the intro turn of a story or a
\* player turn, answered or failed
TurnSettles(c) ==
    \/ \E k \in Stories : /\ stories[k].pc = "intro" /\ stories'[k].pc = "done"
                          /\ stories[k].sessionId = c
    \/ \E t \in Rolls : /\ turns[t].pc = "sent" /\ turns'[t].pc = "done"
                        /\ turns[t].sessionId = c

\* C22: for every turn, answered or failed, the transcript before the turn
\* settles is a prefix of the transcript after it; an answered player turn
\* appends the player's action and then the narration.
C22_TranscriptOnlyGrows ==
    [][\A c \in Visitors :
          TurnSettles(c)
              => /\ IsPrefix(state[c].messages, state'[c].messages)
                 /\ \A t \in Rolls :
                       (turns[t].pc = "sent" /\ turns'[t].pc = "done" /\ turns'[t].status = 200)
                           => /\ Len(state'[c].messages) = Len(state[c].messages) + 2
                              /\ state'[c].messages[Len(state[c].messages) + 1].role = "user"
                              /\ state'[c].messages[Len(state[c].messages) + 2].role
                                    = "assistant"]_vars

\* a step of the party set-up that changes the players
PartyChanges(c) ==
    /\ TeamShown(c)
    /\ screen' = screen
    /\ stories' = stories
    /\ state'[c].players # state[c].players

\* C28: in the party set-up, a player whose class is changed gets the stats of
\* the new class, hp and mana at its bases, and the starting inventory of the
\* new class.
C28_ClassChangeReinitialises ==
    [][\A c \in Visitors :
          PartyChanges(c)
              => \A i \in DOMAIN state'[c].players :
                    LET p == state'[c].players[i]
                    IN  (i \in DOMAIN state[c].players /\ p # state[c].players[i])
                            => /\ p.stats = defaultStatsFor(p.cls)
                               /\ p.hp = p.stats.hpBase
                               /\ p.mana = p.stats.manaBase
                               /\ p.inventory = initialInventory(p.cls)]_vars

\* C29: once the state holds a world, no step, navigating back from the party
\* set-up included, leaves it holding a different world.
C29_WorldReadOnly ==
    [][\A c \in Visitors :
          (state[c].world # Null /\ state'[c].world # Null)
              => state'[c].world = state[c].world]_vars

C40_EmptyPartyNotForced ==
    [][(IsCall /\ Len(game.players) = 0
          /\ (game'.isOver # game.isOver \/ game'.outcome # game.outcome))
       => (eff'.isOver # Undefined \/ eff'.outcome # Undefined)]_vars

\* an actorHp of 0 was applied to a session without players, which is still
\* open
C40_Witness ==
    /\ calls = 1
    /\ Len(game.players) = 0
    /\ eff.actorHp = Num(0)
    /\ eff.isOver = Undefined
    /\ eff.outcome = Undefined
    /\ ~game.isOver
    /\ game.outcome = Null

(***************************************************************************)
(* The dice of a turn.                                                     *)
(***************************************************************************)
\* the action text holds a word of the group
hasWord(group) == \E k \in DOMAIN actionWords : actionWords[k] \in group

\* the stat a class falls back on
classDefault ==
    CASE actorCls = "Wojownik" -> "strength"
      [] actorCls = "Lotrzyk" -> "dexterity"
      [] actorCls \in {"Mag", "Zielarz"} -> "wisdom"
      [] OTHER -> "strength"

\* C31: guessRelevantStat tests the keyword groups in the order combat,
\* social, stealth/search, magic, and the first group with a match decides
\* (strength, wisdom, dexterity, wisdom); only a text without any keyword gets
\* the default of the class: Wojownik strength, Lotrzyk dexterity, Mag and
\* Zielarz wisdom, anything else strength.
C31_GroupsInOrder ==
    relevant # "" =>
        relevant = IF hasWord(CombatWords) THEN "strength"
                   ELSE IF hasWord(SocialWords) THEN "wisdom"
                   ELSE IF hasWord(SearchWords) THEN "dexterity"
                   ELSE IF hasWord(MagicWords) THEN "wisdom"
                   ELSE classDefault

\* C31 witness: a text with a magic keyword ahead of a search keyword was
\* resolved for a Mag to dexterity.
C31_Witness ==
    /\ actionWords = <<"czaruje", "szukam">>
    /\ actorCls = "Mag"
    /\ relevant = "dexterity"

\* C32: for every turn with a roll the d20 shows 1..20 and the submitted
\* diceRoll is the roll plus the actor's relevant stat; for every class that
\* total lies in the range 0..60 the request schema accepts, so a rolled turn
\* is never rejected for its dice value.
C32_TotalAccepted ==
    (relevant # "" /\ actorCls \in GameClass) =>
        /\ rollResult \in 1 .. 20
        /\ total = Num(rollResult + defaultStatsFor(actorCls)[relevant])
        /\ total.num \in 0 .. 60
        /\ diceRollSchema(total)

\* C32 witness: a Wojownik rolled a 20 on an attack, the total is 24
C32_Witness ==
    /\ actionWords = <<"Atakuje", "wilka">>
    /\ actorCls = "Wojownik"
    /\ rollResult = 20
    /\ total = Num(24)
    /\ diceRollSchema(total)

(***************************************************************************)
(* The handler without a credential.                                       *)
(***************************************************************************)
\* turn t is served in this step by the handler without a credential
OfflineServes(t) ==
    /\ ~apiKey
    /\ turns[t].pc = "sent"
    /\ turns'[t].pc = "responded"
    /\ turns'[t].status = 200

\* the session state the store holds for the turn when the handler starts
storedFor(t) ==
    IF sessions[turns[t].sessionId] # Undefined THEN sessions[turns[t].sessionId]
    ELSE turns[t].st

\* C33: in offline mode the quest log is append-only: for every turn, intro or
\* not, whatever its roll and however turns interleave, the questLog stored
\* before the turn is a prefix of the questLog stored after it.
C33_OfflineLogAppendOnly ==
    [][\A t \in Turns :
          OfflineServes(t) =>
             IsPrefix(storedFor(t).questLog, sessions'[turns[t].sessionId].questLog)]_vars

\* C33 witness: an intro turn and a turn with a roll of 19 both left their
\* entry in the log of s1
C33_Witness ==
    /\ ~apiKey
    /\ sessions["s1"] # Undefined
    /\ sessions["s1"].questLog = <<"Cel glowny wyznaczony.", "Postep: Atakuj">>

\* C36: in offline mode the handler reads, applies and stores without
\* suspending, so turns submitted concurrently for one sessionId are applied
\* one after another, each to the state the store holds at that moment, and
\* the final state reflects every one of them.
C36_OfflineTurnsSerial ==
    [][\A t \in Turns :
          OfflineServes(t) =>
             sessions'[turns[t].sessionId] =
                applyEffects(storedFor(t), responseEffects(turns'[t].response),
                             turns[t].playerIndex)]_vars

\* C36 witness: two turns of s1 with a low roll, both submitted with the game
\* state of the start, were served: the Wojownik lost 3 hp twice
C36_Witness ==
    /\ ~apiKey
    /\ \A t \in {1, 2} :
          /\ turns[t].pc = "responded"
          /\ turns[t].sessionId = "s1"
          /\ turns[t].playerIndex = 0
          /\ ~turns[t].isIntro
          /\ turns[t].st.players[1].hp = defaultStatsFor("Wojownik").hpBase
    /\ sessions["s1"].players[1].hp = defaultStatsFor("Wojownik").hpBase - 2 * HpLoss

\* C39: in offline mode a win is declared only by a turn that is no intro, on
\* a session that has a goal, with a roll of 19 or more: in every state
\* reachable offline from a fresh game, a stored session with outcome = win
\* has its goal set.
C39_OfflineWinNeedsGoal ==
    ~apiKey =>
       \A sid \in SessionIds :
          (sessions[sid] # Undefined /\ sessions[sid].outcome = Str("win"))
             => Truthy(sessions[sid].goal)

\* C39 witness: after the intro turn set the goal, a roll of 19 won the game
C39_Witness ==
    /\ ~apiKey
    /\ sessions["s1"] # Undefined
    /\ sessions["s1"].goal = Str(IntroGoal)
    /\ sessions["s1"].outcome = Str("win")
    /\ sessions["s1"].isOver

(***************************************************************************)
(* The client's mirror of the session.                                     *)
(***************************************************************************)
\* no turn of the client is between its submission and its completion
Settled(sid) ==
    \A t \in Turns : turns[t].sessionId = sid => turns[t].pc \in {"idle", "done"}

\* C37: after every completed turn the client's mirrored state agrees with
\* the session the server stores on goal, questLog, isOver, outcome and every
\* player's hp, mana and inventory.
C37_MirrorAgrees ==
    \A sid \in SessionIds :
       (sessions[sid] # Undefined /\ Settled(sid)) => Core(state[sid]) = Core(sessions[sid])

\* the turns of a client between the start of their roll and the moment
\* their response (or failure) has been applied
InProgress(c) == {t \in Turns : turns[t].sessionId = c /\ turns[t].pc \in {"rolling", "sent"}}

\* C38: from one client at most one turn is in progress at a time: between
\* the start of a turn's dice roll and its response being applied no second
\* turn can be started, so two sendToAI calls of one client never overlap.
C38_OneTurnPerClient ==
    \A c \in SessionIds : Cardinality(InProgress(c)) <= 1

(***************************************************************************)
(* A new game under the session identifier of an earlier one.              *)
(***************************************************************************)
\* what the handler stores for an intro turn when it works on the game state
\* of the request
introOn(gameState, playerAction, playerIndex) ==
    applyEffects(gameState,
                 fieldsOf(offlineNarrate(playerAction, Null, gameState, TRUE,
                                         playerIndex).effects),
                 playerIndex)

\* every other turn of the client of turn t is complete: t opens a new game
EarlierTurnsDone(t) ==
    \A u \in Turns \ {t} : turns[u].sessionId = turns[t].sessionId => turns[u].pc = "done"

\* C35: after the client resets (resetToWorld) and starts a new game under
\* the same session identifier, the session the server stores after the new
\* intro turn is derived from the new game's initial state, not from the
\* state the earlier game left in the store; in particular it is not over.
C35_NewGameReplacesSession ==
    [][\A t \in Turns :
          (OfflineServes(t) /\ turns[t].isIntro /\ EarlierTurnsDone(t)) =>
             sessions'[turns[t].sessionId] =
                introOn(turns[t].st, turns[t].playerAction, turns[t].playerIndex)]_vars

(***************************************************************************)
(* The single-player path and the party of one.                            *)
(***************************************************************************)
\* the fields the two variants share, of a single-player state and of the
\* only player of a party
singleCore(st) ==
    [hp |-> st.hp, mana |-> st.mana, inventory |-> st.inventory, goal |-> st.goal,
     questLog |-> st.questLog, isOver |-> st.isOver, outcome |-> st.outcome]

partyCore(g) ==
    [hp |-> g.players[1].hp, mana |-> g.players[1].mana,
     inventory |-> g.players[1].inventory, goal |-> g.goal,
     questLog |-> g.questLog, isOver |-> g.isOver, outcome |-> g.outcome]

\* C34: the single-player turn path behaves as the party reducer applied to a
\* party of one: from the same starting values and for the same effects both
\* end with the same hp (clamped to 0..hpBase), mana, inventory, goal,
\* questLog, isOver and outcome, the forced isOver = true, outcome = lose at
\* hp 0 included.
C34_SingleIsPartyOfOne ==
    /\ singleCore(game.server) = partyCore(game.party)
    /\ singleCore(game.page) = partyCore(game.party)

====
